---- MODULE Spec2Model ----
(***************************************************************************)
(* WispHub CustomerCare MCP server: the HTTP access layer (retry + cache), *)
(* the in-memory TTL cache, and the write-verification flows of the        *)
(* cliente and ticket services.                                            *)
(*                                                                         *)
(* Specifications:                                                         *)
(*   SpecHttp   one access-layer request through the axios response        *)
(*              interceptor of WispHubClient (retry, backoff, formatError) *)
(*   SpecCache  the CacheManager under set/get/delete/clear/cleanup and    *)
(*              the passing of time                                        *)
(*   SpecClient concurrent WispHubClient.get calls (cache-aside) and       *)
(*              clearCache on one client                                   *)
(*   SpecSvc    one invocation of a ClienteService or TicketService method *)
(*              against an upstream that may ignore what is written        *)
(*   SpecConc   concurrent invocations on the same service instances       *)
(***************************************************************************)
EXTENDS Integers, Sequences, FiniteSets, TLC

VARIABLES
    hpc,        \* position of the access-layer request: idle, sent, delay, resolved, rejected
    hreq,       \* the axios request config (originalRequest): method, _retry, _retryCount
    script,     \* what the transport answers to the 1st, 2nd, ... transmission
    sent,       \* transmissions made so far
    delays,     \* the backoff delays awaited so far, in ms
    hres,       \* what the call resolved with (a body) or rejected with (a formatted error)
    cm,         \* the CacheManager: its Map (key -> entry) and its stats counters
    now,        \* Date.now()
    ops,        \* cache operations and access-layer calls made so far
    got,        \* what the latest CacheManager.get returned, and for which key
    written,    \* per key, the latest set that no set/delete/clear has followed
    calls,      \* per caller, its WispHubClient.get call: position, arguments, result
    proc,       \* per tool invocation, the service method it runs: position, locals, result
    up          \* what the upstream holds: the client record and the ticket record

httpVars == <<hpc, hreq, script, sent, delays, hres>>
cacheVars == <<cm, now, ops, got, written>>
clientVars == <<calls>>
svcVars == <<proc, up>>
vars == <<httpVars, cacheVars, clientVars, svcVars>>

\* What the actions of one component leave alone.
exceptHttp == <<cacheVars, clientVars, svcVars>>
exceptCache == <<httpVars, clientVars, svcVars>>
exceptClient == <<httpVars, svcVars>>
exceptSvc == <<httpVars, clientVars>>

(***************************************************************************)
(* Values                                                                  *)
(***************************************************************************)

\* Strings are sequences of tokens (a character or a whole word), so that trim
\* has something to strip.
Str(w) == <<w>>
EmptyStr == <<>>
\* undefined, where a string may stand.
Undef == <<"#undefined">>

\* An ApiCliente, by the fields the flows below read or write.
ApiCliente(c, e, s) == [comentarios |-> c, email |-> e, estado |-> s]
\* An ApiTicket, likewise, without any of its properties.
NoTicket ==
    [estado |-> Undef, prioridad |-> Undef, tecnico |-> Undef, email_tecnico |-> Undef,
     razon_falla |-> Undef, fecha_inicio |-> Undef, fecha_fin |-> Undef,
     finalizado_por |-> Undef, descripcion |-> Undef, origen_reporte |-> Undef,
     tickets_mensual |-> Undef, tickets_anual |-> Undef, vencimiento |-> Undef,
     archivo_ticket |-> Undef, respuestas |-> Undef]
\* A ticket as the upstream holds it: a state, a priority, a description, the
\* origin of the report, and the properties that only the upstream computes.
ApiTicket(e, p) ==
    [NoTicket EXCEPT !.estado = e, !.prioridad = p, !.descripcion = Str("d"),
                     !.origen_reporte = Str("telefono"),
                     !.tickets_mensual = Str("1"), !.tickets_anual = Str("2"),
                     !.vencimiento = Str("v"), !.archivo_ticket = Str("f"),
                     !.respuestas = Str("r")]
\* A number as JavaScript has it where the flows compute with it: a number, NaN,
\* or undefined where a number may stand.
Num(n) == [kind |-> "num", n |-> n]
NaN == [kind |-> "nan", n |-> 0]
NoNum == [kind |-> "undefined", n |-> 0]
\* A due date of an invoice, by what new Date(fecha_vencimiento) makes of it:
\* none given, a string that is no date (Invalid Date), or a date, held as the
\* time from it to today in half days (negative: not yet due).
NoDate == [kind |-> "undefined", ago |-> 0]
InvalidDate == [kind |-> "invalid", ago |-> 0]
DateAgo(halfDays) == [kind |-> "date", ago |-> halfDays]
\* An ApiFacturaPendiente, by its days overdue and its due date.
ApiFactura(d, f) == [dias_vencido |-> d, fecha_vencimiento |-> f]
\* A list property of a record, set or not.
NoList == [set |-> FALSE, items |-> <<>>]
List(items) == [set |-> TRUE, items |-> items]
\* An ApiSaldo, by its balance and its pending invoices, which the upstream
\* gives as facturas_pendientes or as facturas.
ApiSaldoOf(pendientes, facturas) ==
    [saldo_actual |-> Str("-100"), facturas_pendientes |-> pendientes, facturas |-> facturas]
\* null, where a record may stand.
NullRec == [null |-> TRUE]

\* A JSON body: its shape and the record it carries (NullRec if none).
\*   object: the record itself          array: [record]      page: {results: [record]}
\*   empty_array: []                    empty_page: {results: []}
\*   text: a non-empty string           num_0, str_empty, bool_false, null: falsy values
Body(shape, rec) == [shape |-> shape, rec |-> rec]
Null == Body("null", NullRec)
Num0 == Body("num_0", NullRec)
StrEmpty == Body("str_empty", NullRec)
BoolFalse == Body("bool_false", NullRec)
ObjA == Body("object", ApiCliente(Str("a"), Undef, Str("Activo")))
ObjB == Body("object", ApiCliente(Str("b"), Undef, Str("Activo")))
ErrDetail == Body("object", [detail |-> Str("error")])

\* JavaScript's truthiness of a body.
FalsyShapes == {"num_0", "str_empty", "bool_false", "null"}
Truthy(b) == b.shape \notin FalsyShapes

Methods == {"GET", "POST", "PUT", "PATCH", "DELETE"}

\* defaultConfig.retryAttempts
retryAttempts == 3

\* What the transport can answer to one transmission. status 0: no response.
R200 == [status |-> 200, data |-> ObjA, code |-> "OK"]
R404 == [status |-> 404, data |-> ErrDetail, code |-> "ERR_BAD_REQUEST"]
R500 == [status |-> 500, data |-> ErrDetail, code |-> "ERR_BAD_RESPONSE"]
R503 == [status |-> 503, data |-> ErrDetail, code |-> "ERR_BAD_RESPONSE"]
R503Empty == [status |-> 503, data |-> StrEmpty, code |-> "ERR_BAD_RESPONSE"]
RNet == [status |-> 0, data |-> Null, code |-> "ECONNREFUSED"]
RTimeout == [status |-> 0, data |-> Null, code |-> "ECONNABORTED"]
Responses == {R200, R404, R500, R503, R503Empty, RNet, RTimeout}

HasResponse(r) == r.status # 0
Is2xx(r) == r.status >= 200 /\ r.status < 300
Is4xx(r) == r.status >= 400 /\ r.status < 500
Is5xx(r) == r.status >= 500

\* One answer per possible transmission of a request.
ScriptLen == retryAttempts + 1
Scripts == [1..ScriptLen -> Responses]

\* The answer to the i-th transmission (the last one repeats).
ScriptAt(s, i) == IF i <= Len(s) THEN s[i] ELSE s[Len(s)]

RECURSIVE Pow2(_)
Pow2(n) == IF n <= 0 THEN 1 ELSE 2 * Pow2(n - 1)

(***************************************************************************)
(* CacheManager                                                            *)
(***************************************************************************)

\* Bounds of the cache model.
MaxTtl == 2
MaxNow == 2
MaxOps == 3

Endpoints == {"/api/clientes/", "/api/clientes/1/"}
ParamStrings == {"{}"}

\* WispHubClient.getCacheKey: method:endpoint:JSON.stringify(params).
getCacheKey(method, endpoint, paramString) == <<method, endpoint, paramString>>

Keys == {getCacheKey("GET", e, p) : e \in Endpoints, p \in ParamStrings}
CacheValues == {ObjA, Num0}
Ttls == 1..MaxTtl

\* Map.get of a key the Map does not hold.
NoEntry == [present |-> FALSE, value |-> Null, expires |-> 0]
NoStats == [hits |-> 0, misses |-> 0, sets |-> 0, deletes |-> 0, clears |-> 0]
EmptyCache == [map |-> [k \in Keys |-> NoEntry], stats |-> NoStats]

\* CacheManager.set at time t.
CacheSet(c, k, v, ttl, t) ==
    [map |-> [c.map EXCEPT ![k] = [present |-> TRUE, value |-> v, expires |-> t + ttl]],
     stats |-> [c.stats EXCEPT !.sets = @ + 1]]

\* Mutant of CacheGet: an entry already counts as expired at its expiry time.
CacheGet_ExpiresAtExpiry(c, k, t) ==
    LET e == c.map[k] IN
    IF ~e.present
    THEN [cache |-> [c EXCEPT !.stats.misses = @ + 1], value |-> Null]
    ELSE IF e.expires <= t
         THEN [cache |-> [map |-> [c.map EXCEPT ![k] = NoEntry],
                          stats |-> [c.stats EXCEPT !.misses = @ + 1, !.deletes = @ + 1]],
               value |-> Null]
         ELSE [cache |-> [c EXCEPT !.stats.hits = @ + 1], value |-> e.value]

\* Mutant of CacheGet: the get of an expired entry counts as a delete only.
CacheGet_ExpiredUncounted(c, k, t) ==
    LET e == c.map[k] IN
    IF ~e.present
    THEN [cache |-> [c EXCEPT !.stats.misses = @ + 1], value |-> Null]
    ELSE IF e.expires < t
         THEN [cache |-> [map |-> [c.map EXCEPT ![k] = NoEntry],
                          stats |-> [c.stats EXCEPT !.deletes = @ + 1]],
               value |-> Null]
         ELSE [cache |-> [c EXCEPT !.stats.hits = @ + 1], value |-> e.value]

\* CacheManager.get at time t: the cache it leaves and the value it returns
\* (Null for its null).
CacheGet(c, k, t) ==
    LET e == c.map[k] IN
    IF ~e.present
    THEN [cache |-> [c EXCEPT !.stats.misses = @ + 1], value |-> Null]
    ELSE IF e.expires < t
         THEN [cache |-> [map |-> [c.map EXCEPT ![k] = NoEntry],
                          stats |-> [c.stats EXCEPT !.misses = @ + 1, !.deletes = @ + 1]],
               value |-> Null]
         ELSE [cache |-> [c EXCEPT !.stats.hits = @ + 1], value |-> e.value]

\* CacheManager.delete.
CacheDelete(c, k) ==
    IF c.map[k].present
    THEN [map |-> [c.map EXCEPT ![k] = NoEntry],
          stats |-> [c.stats EXCEPT !.deletes = @ + 1]]
    ELSE c

\* Mutant of CacheClear: nothing is removed.
CacheClear_KeepsEntries(c) == c

\* CacheManager.clear.
CacheClear(c) ==
    [map |-> [k \in Keys |-> NoEntry], stats |-> [c.stats EXCEPT !.clears = @ + 1]]

ExpiredKeys(c, t) == {k \in Keys : c.map[k].present /\ c.map[k].expires < t}

\* CacheManager.cleanup at time t.
CacheCleanup(c, t) ==
    [map |-> [k \in Keys |-> IF k \in ExpiredKeys(c, t) THEN NoEntry ELSE c.map[k]],
     stats |-> [c.stats EXCEPT !.deletes = @ + Cardinality(ExpiredKeys(c, t))]]

\* The return value of CacheManager.cleanup at time t: cleanedCount.
cleanedCount(c, t) == Cardinality(ExpiredKeys(c, t))

\* a / b of two counters, as a fraction; NaN for 0 / 0.
Ratio(a, b) ==
    IF b = 0 THEN [kind |-> "nan", num |-> 0, den |-> 1]
    ELSE [kind |-> "num", num |-> a, den |-> b]

\* x || 0, for a fraction: 0 for NaN and 0.
RatioOrZero(x) ==
    IF x.kind = "nan" \/ x.num = 0 THEN [kind |-> "num", num |-> 0, den |-> 1] ELSE x

\* CacheManager.getStats: the counters, the size of the Map and the hit rate.
getStats(c) ==
    [hits |-> c.stats.hits, misses |-> c.stats.misses, sets |-> c.stats.sets,
     deletes |-> c.stats.deletes, clears |-> c.stats.clears,
     size |-> Cardinality({k \in Keys : c.map[k].present}),
     hitRate |-> RatioOrZero(Ratio(c.stats.hits, c.stats.hits + c.stats.misses))]

\* CacheManager.size.
CacheSize(c) == Cardinality({k \in Keys : c.map[k].present})

NoGot == [valid |-> FALSE, key |-> getCacheKey("GET", "/api/clientes/", "{}"), value |-> Null]
NoWrite == [live |-> FALSE, value |-> Null, at |-> 0, ttl |-> 0]

CacheIdle ==
    /\ cm = EmptyCache
    /\ now = 0
    /\ ops = 0
    /\ got = NoGot
    /\ written = [k \in Keys |-> NoWrite]

DoSet(k, v, ttl) ==
    /\ ops < MaxOps
    /\ cm' = CacheSet(cm, k, v, ttl, now)
    /\ written' = [written EXCEPT ![k] = [live |-> TRUE, value |-> v, at |-> now, ttl |-> ttl]]
    /\ got' = NoGot
    /\ ops' = ops + 1
    /\ UNCHANGED now
    /\ UNCHANGED exceptCache

DoGet(k) ==
    /\ ops < MaxOps
    /\ cm' = CacheGet(cm, k, now).cache
    /\ got' = [valid |-> TRUE, key |-> k, value |-> CacheGet(cm, k, now).value]
    /\ ops' = ops + 1
    /\ UNCHANGED <<now, written>>
    /\ UNCHANGED exceptCache

DoDelete(k) ==
    /\ ops < MaxOps
    /\ cm' = CacheDelete(cm, k)
    /\ written' = [written EXCEPT ![k] = NoWrite]
    /\ got' = NoGot
    /\ ops' = ops + 1
    /\ UNCHANGED now
    /\ UNCHANGED exceptCache

DoClear ==
    /\ ops < MaxOps
    /\ cm' = CacheClear(cm)
    /\ written' = [k \in Keys |-> NoWrite]
    /\ got' = NoGot
    /\ ops' = ops + 1
    /\ UNCHANGED now
    /\ UNCHANGED exceptCache

DoCleanup ==
    /\ ops < MaxOps
    /\ cm' = CacheCleanup(cm, now)
    /\ got' = NoGot
    /\ ops' = ops + 1
    /\ UNCHANGED <<now, written>>
    /\ UNCHANGED exceptCache

\* Time passes.
Tick ==
    /\ now < MaxNow
    /\ now' = now + 1
    /\ got' = NoGot
    /\ UNCHANGED <<cm, ops, written>>
    /\ UNCHANGED exceptCache

CacheNext ==
    \/ \E k \in Keys, v \in CacheValues, ttl \in Ttls : DoSet(k, v, ttl)
    \/ \E k \in Keys : DoGet(k)
    \/ \E k \in Keys : DoDelete(k)
    \/ DoClear
    \/ DoCleanup
    \/ Tick

(***************************************************************************)
(* WispHubClient.get: cache-aside read                                     *)
(***************************************************************************)

MaxCallers == 2
MaxCalls == 3

Callers == 1..MaxCallers
Bodies == {ObjA, ObjB, StrEmpty}
\* cacheTtl as passed to get: 0 stands for undefined.
CacheTtls == {0} \cup Ttls

NoCall == [pc |-> "idle", key |-> getCacheKey("GET", "/api/clientes/", "{}"), ttl |-> 0,
           net |-> FALSE, result |-> Null, expectHit |-> FALSE, expectBody |-> Null]

ClientIdle == calls = [c \in Callers |-> NoCall]

\* The set that get made is still within its TTL at time t.
Fresh(w, t) == w.live /\ t < w.at + w.ttl

\* get: if (cached)
CacheHit(v) == Truthy(v)

\* get(endpoint, params, cacheTtl), up to its return of the cached value or its
\* await of this.http.get.
GetStart(c, e, p, ttl) ==
    LET key == getCacheKey("GET", e, p)
        r == CacheGet(cm, key, now)
        tried == ttl > 0
        hit == tried /\ CacheHit(r.value)
    IN
    /\ calls[c].pc # "net"
    /\ ops < MaxCalls
    /\ ops' = ops + 1
    /\ cm' = IF tried THEN r.cache ELSE cm
    /\ got' = IF tried THEN [valid |-> TRUE, key |-> key, value |-> r.value] ELSE NoGot
    /\ calls' = [calls EXCEPT ![c] =
                    [pc |-> IF hit THEN "done" ELSE "net",
                     key |-> key, ttl |-> ttl, net |-> ~hit,
                     result |-> IF hit THEN r.value ELSE Null,
                     expectHit |-> tried /\ Fresh(written[key], now),
                     expectBody |-> written[key].value]]
    /\ UNCHANGED <<now, written>>
    /\ UNCHANGED exceptClient

\* Mutant of GetResolve: the body is cached under the key of another caller's
\* get, as if cacheKey were shared by the calls in flight.
GetResolve_SharedKey(c, body) ==
    LET other == calls[CHOOSE d \in Callers : d # c].key IN
    /\ calls[c].pc = "net"
    /\ IF calls[c].ttl > 0
       THEN /\ cm' = CacheSet(cm, other, body, calls[c].ttl, now)
            /\ written' = [written EXCEPT ![calls[c].key] =
                              [live |-> TRUE, value |-> body, at |-> now, ttl |-> calls[c].ttl]]
       ELSE UNCHANGED <<cm, written>>
    /\ calls' = [calls EXCEPT ![c].pc = "done", ![c].result = body]
    /\ got' = NoGot
    /\ UNCHANGED <<now, ops>>
    /\ UNCHANGED exceptClient

\* this.http.get resolves with a body: cache it when a TTL was given, return it.
GetResolve(c, body) ==
    /\ calls[c].pc = "net"
    /\ IF calls[c].ttl > 0
       THEN /\ cm' = CacheSet(cm, calls[c].key, body, calls[c].ttl, now)
            /\ written' = [written EXCEPT ![calls[c].key] =
                              [live |-> TRUE, value |-> body, at |-> now, ttl |-> calls[c].ttl]]
       ELSE UNCHANGED <<cm, written>>
    /\ calls' = [calls EXCEPT ![c].pc = "done", ![c].result = body]
    /\ got' = NoGot
    /\ UNCHANGED <<now, ops>>
    /\ UNCHANGED exceptClient

\* this.http.get rejects: get throws, nothing is cached.
GetReject(c) ==
    /\ calls[c].pc = "net"
    /\ calls' = [calls EXCEPT ![c].pc = "failed"]
    /\ got' = NoGot
    /\ UNCHANGED <<cm, now, ops, written>>
    /\ UNCHANGED exceptClient

\* WispHubClient.clearCache.
ClearCache ==
    /\ ops < MaxCalls
    /\ ops' = ops + 1
    /\ cm' = CacheClear(cm)
    /\ written' = [k \in Keys |-> NoWrite]
    /\ got' = NoGot
    /\ UNCHANGED <<now, calls>>
    /\ UNCHANGED exceptClient

ClientTick ==
    /\ now < MaxNow
    /\ now' = now + 1
    /\ got' = NoGot
    /\ UNCHANGED <<cm, ops, written, calls>>
    /\ UNCHANGED exceptClient

ClientNext ==
    \/ \E c \in Callers, e \in Endpoints, p \in ParamStrings, ttl \in CacheTtls :
          GetStart(c, e, p, ttl)
    \/ \E c \in Callers, body \in Bodies : GetResolve(c, body)
    \/ \E c \in Callers : GetReject(c)
    \/ ClearCache
    \/ ClientTick

(***************************************************************************)
(* WispHubClient: the response interceptor                                 *)
(***************************************************************************)

\* Mutant of shouldRetry: client errors retried too.
shouldRetry_4xx(r) == ~HasResponse(r) \/ r.status >= 400

\* Retry on network errors or 5xx server errors.
shouldRetry(r) == ~HasResponse(r) \/ r.status >= 500

\* Mutant of RetryGuard: only reads are retried.
RetryGuard_ReadsOnly(req, r) == req.method = "GET" /\ ~req.retry /\ shouldRetry(r)

\* The interceptor's condition for a retry: originalRequest && !_retry && shouldRetry.
RetryGuard(req, r) == ~req.retry /\ shouldRetry(r)

\* Mutant of retryDelay: a fixed delay of two seconds.
retryDelay_Fixed(req) == 2000

\* Math.pow(2, _retryCount || 0) * 1000
retryDelay(req) == Pow2(req.retryCount) * 1000

\* The Error the interceptor rejects with, by the message it builds.
formatError(r) ==
    IF HasResponse(r) /\ Truthy(r.data)
    THEN [kind |-> "WispHub API Error", status |-> r.status, data |-> Null]
    ELSE IF r.code = "ECONNABORTED"
         THEN [kind |-> "Request timeout", status |-> 0, data |-> Null]
         ELSE [kind |-> "Network error", status |-> 0, data |-> Null]

NoResult == [kind |-> "none", status |-> 0, data |-> Null]
Resolved(b) == [kind |-> "resolved", status |-> 200, data |-> b]

HttpIdle ==
    /\ hpc = "idle"
    /\ hreq = [method |-> "GET", retry |-> FALSE, retryCount |-> 0]
    /\ script = [i \in 1..ScriptLen |-> R200]
    /\ sent = 0
    /\ delays = <<>>
    /\ hres = NoResult

\* get/post/put/patch/delete hand one request to axios.
Request(m, s) ==
    /\ hpc = "idle"
    /\ hpc' = "sent"
    /\ hreq' = [method |-> m, retry |-> FALSE, retryCount |-> 0]
    /\ script' = s
    /\ sent' = 1
    /\ UNCHANGED <<delays, hres>>
    /\ UNCHANGED exceptHttp

\* The transport answers 2xx: the success interceptor passes the response on.
ReceiveOk ==
    /\ hpc = "sent"
    /\ Is2xx(ScriptAt(script, sent))
    /\ hpc' = "resolved"
    /\ hres' = Resolved(ScriptAt(script, sent).data)
    /\ UNCHANGED <<hreq, script, sent, delays>>
    /\ UNCHANGED exceptHttp

\* The transport fails the request: the error interceptor, up to its await of delay().
ReceiveError ==
    /\ hpc = "sent"
    /\ ~Is2xx(ScriptAt(script, sent))
    /\ LET r == ScriptAt(script, sent) IN
       IF RetryGuard(hreq, r)
       THEN /\ hreq' = [hreq EXCEPT !.retry = TRUE]
            /\ delays' = Append(delays, retryDelay(hreq))
            /\ hpc' = "delay"
            /\ hres' = hres
       ELSE /\ hpc' = "rejected"
            /\ hres' = formatError(r)
            /\ UNCHANGED <<hreq, delays>>
    /\ UNCHANGED <<script, sent>>
    /\ UNCHANGED exceptHttp

\* The delay has elapsed: count the retry, and re-send or give up.
DelayElapsed ==
    /\ hpc = "delay"
    /\ hreq' = [hreq EXCEPT !.retryCount = hreq.retryCount + 1]
    /\ IF hreq.retryCount + 1 <= retryAttempts
       THEN /\ hpc' = "sent"
            /\ sent' = sent + 1
            /\ hres' = hres
       ELSE /\ hpc' = "rejected"
            /\ hres' = formatError(ScriptAt(script, sent))
            /\ sent' = sent
    /\ UNCHANGED <<script, delays>>
    /\ UNCHANGED exceptHttp

StartRequest == hpc = "idle" /\ \E m \in Methods, s \in Scripts : Request(m, s)

HttpNext ==
    \/ StartRequest
    \/ ReceiveOk
    \/ ReceiveError
    \/ DelayElapsed

(***************************************************************************)
(* DataTransformer, and the shapes of upstream answers                     *)
(***************************************************************************)

\* String.prototype.trim
RECURSIVE TrimStart(_)
TrimStart(s) == IF s # EmptyStr /\ Head(s) = " " THEN TrimStart(Tail(s)) ELSE s

RECURSIVE TrimEnd(_)
TrimEnd(s) == IF s # EmptyStr /\ s[Len(s)] = " " THEN TrimEnd(SubSeq(s, 1, Len(s) - 1)) ELSE s

Trim(s) == TrimEnd(TrimStart(s))

\* JavaScript's truthiness of a string or undefined.
TruthyStr(v) == v # Undef /\ v # EmptyStr

\* v || ''
OrEmpty(v) == IF TruthyStr(v) THEN v ELSE EmptyStr

\* rec[f], undefined when rec has no such property.
Get(rec, f) == IF f \in DOMAIN rec THEN rec[f] ELSE Undef

\* ESTADO_CLIENTE_MAP is an object literal: besides its five own keys, a lookup
\* finds the properties it inherits from Object.prototype, whose values
\* are functions or objects, all truthy.
ObjectPrototypeKeys ==
    {Str(k) : k \in {"constructor", "toString", "toLocaleString", "valueOf",
                     "hasOwnProperty", "isPrototypeOf", "propertyIsEnumerable",
                     "__proto__"}}
Inherited(key) == <<"#Object.prototype">> \o key

\* ESTADO_CLIENTE_MAP[estado] || 'cancelado'
estadoClienteStringToEnum(estado) ==
    CASE estado = Str("Activo") -> Str("activo")
      [] estado = Str("Suspendido") -> Str("suspendido")
      [] estado = Str("Cancelado") -> Str("cancelado")
      [] estado = Str("Cortado") -> Str("suspendido")
      [] estado = Str("Inactivo") -> Str("cancelado")
      [] estado \in ObjectPrototypeKeys -> Inherited(estado)
      [] OTHER -> Str("cancelado")

\* DataTransformer.clienteToUserFriendly, on the fields tracked here.
clienteToUserFriendly(apiCliente) ==
    [comentarios |-> OrEmpty(Get(apiCliente, "comentarios")),
     email |-> OrEmpty(Get(apiCliente, "email")),
     estado |-> estadoClienteStringToEnum(Get(apiCliente, "estado"))]

\* ESTADO_TICKET_MAP[estado] || 'abierto'
estadoTicketToString(estado) ==
    CASE estado = Str("1") -> Str("nuevo")
      [] estado = Str("2") -> Str("en_progreso")
      [] estado = Str("3") -> Str("resuelto")
      [] estado = Str("4") -> Str("cerrado")
      [] OTHER -> Str("abierto")

\* PRIORIDAD_TICKET_MAP[prioridad] || 'media'
prioridadTicketToString(prioridad) ==
    CASE prioridad = Str("1") -> Str("baja")
      [] prioridad = Str("2") -> Str("normal")
      [] prioridad = Str("3") -> Str("alta")
      [] prioridad = Str("4") -> Str("muy_alta")
      [] OTHER -> Str("media")

\* The canonical values: the types EstadoCliente, EstadoTicket, PrioridadTicket.
EstadoCliente == {Str("activo"), Str("suspendido"), Str("cancelado")}
EstadoTicket == {Str("nuevo"), Str("en_progreso"), Str("resuelto"), Str("cerrado")}
PrioridadTicket == {Str("baja"), Str("normal"), Str("alta"), Str("muy_alta")}

\* The reverse maps, from the canonical values to what the upstream uses.
ESTADO_CLIENTE_REVERSE_MAP ==
    (Str("activo") :> Str("Activo")) @@ (Str("suspendido") :> Str("Suspendido"))
    @@ (Str("cancelado") :> Str("Cancelado"))
ESTADO_TICKET_REVERSE_MAP ==
    (Str("nuevo") :> Str("1")) @@ (Str("en_progreso") :> Str("2"))
    @@ (Str("resuelto") :> Str("3")) @@ (Str("cerrado") :> Str("4"))
PRIORIDAD_TICKET_REVERSE_MAP ==
    (Str("baja") :> Str("1")) @@ (Str("normal") :> Str("2"))
    @@ (Str("alta") :> Str("3")) @@ (Str("muy_alta") :> Str("4"))

\* ESTADO_CLIENTE_REVERSE_MAP[estado] || 'Activo'
estadoClienteEnumToString(estado) ==
    IF estado \in DOMAIN ESTADO_CLIENTE_REVERSE_MAP
    THEN ESTADO_CLIENTE_REVERSE_MAP[estado] ELSE Str("Activo")

\* Mutant of estadoTicketToNumber: the default for every state.
estadoTicketToNumber_Default(estado) == Str("1")

\* ESTADO_TICKET_REVERSE_MAP[estado] || 1
estadoTicketToNumber(estado) ==
    IF estado \in DOMAIN ESTADO_TICKET_REVERSE_MAP
    THEN ESTADO_TICKET_REVERSE_MAP[estado] ELSE Str("1")

\* PRIORIDAD_TICKET_REVERSE_MAP[prioridad] || 2
prioridadTicketToNumber(prioridad) ==
    IF prioridad \in DOMAIN PRIORIDAD_TICKET_REVERSE_MAP
    THEN PRIORIDAD_TICKET_REVERSE_MAP[prioridad] ELSE Str("2")

\* DataTransformer.ticketToUserFriendly, on the fields tracked here.
ticketToUserFriendly(apiTicket) ==
    [estado |-> estadoTicketToString(Get(apiTicket, "estado")),
     prioridad |-> prioridadTicketToString(Get(apiTicket, "prioridad")),
     tecnico |-> Get(apiTicket, "tecnico"),
     descripcion |-> Get(apiTicket, "descripcion")]

\* Number.isInteger(Number(id)) && Number(id) > 0
isValidServicioId(id) == id > 0

\* The shapes an answer can have, and those that carry a record.
Shapes == {"object", "array", "page", "empty_array", "empty_page", "text", "null"}
RecShapes == {"object", "array", "page"}

\* The answer of the given shape about a record.
Answer(shape, rec) == Body(shape, IF shape \in RecShapes THEN rec ELSE NullRec)

\* The unwrapping every reader of an answer does: an array gives its first
\* element, a page the first of its results, an object itself, and an empty
\* array, an empty page, a string or a falsy value give null.
firstRecord(body) == IF body.shape \in RecShapes THEN body.rec ELSE NullRec

\* The properties of a body read as if it were the record itself: those of an
\* object, none of the tracked ones for an array, a page or a string.
NoFields == [length |-> 0]
asRecord(body) == IF body.shape = "object" THEN body.rec ELSE NoFields

\* The properties of data that are set.
Sent(data) == {f \in DOMAIN data : data[f] # Undef}

\* The upstream record after a write of data of which only the properties in
\* applied are persisted.
Persist(rec, data, applied) ==
    [f \in DOMAIN rec |-> IF f \in applied /\ f \in Sent(data) THEN data[f] ELSE rec[f]]

(***************************************************************************)
(* ClienteService and TicketService: one record per tool invocation        *)
(***************************************************************************)

MaxProcs == 2
Procs == 1..MaxProcs

\* defaultConfig.cache.clientes
cacheClientes == 300000

\* obtenerCliente(clienteId) calls obtenerClienteWithRetry(clienteId, 3)
maxRetries == 3

\* endpointsToTry of actualizarCliente
endpointsToTry == <<"/api/clientes/", "/api/clients/", "/api/usuarios/", "/api/contactos/">>

\* The cache key of obtenerCliente's GET of /api/clientes/{id}/ with searchParams {}.
ClienteKey == getCacheKey("GET", "/api/clientes/1/", "{}")

UpIdle == [cliente |-> ApiCliente(Str("old"), Str("e@old"), Str("Activo")),
           ticket |-> ApiTicket(Str("1"), Str("2")),
           saldo |-> ApiSaldoOf(List(<<>>), NoList)]

\* One access-layer call in the log of an invocation.
Call(method, entity, phase, via, outcome) ==
    [method |-> method, entity |-> entity, phase |-> phase, via |-> via, outcome |-> outcome]

\* The pending call of a log is its last one.
MarkLast(log, outcome) == [log EXCEPT ![Len(log)].outcome = outcome]

NoDebug == [present |-> FALSE, endpoint |-> "", sentToAPI |-> NullRec, apiResponse |-> Null,
            verified |-> NullRec, verificationFailed |-> FALSE,
            verificationWorked |-> FALSE, statusChanged |-> FALSE,
            attempts |-> <<>>, noDataFound |-> FALSE, allAttemptsFailed |-> FALSE]

\* new Date(t).toISOString()
toISOString(t) == <<"iso", t>>

\* A ToolResponse: every return of a service method builds one, stamped with the
\* time of the return.
Result(success, data, error, debugInfo) ==
    [success |-> success, data |-> data, error |-> error, debugInfo |-> debugInfo,
     timestamp |-> toISOString(now)]

NoResultYet ==
    [success |-> FALSE, data |-> NullRec, error |-> "", debugInfo |-> NoDebug,
     timestamp |-> Undef]

\* The handler of the tool that made the invocation (none: the service method
\* was called directly): where the handler stands, its arguments, the result
\* and the calls of its preliminary read, the service methods it has called to
\* write, its answer, the number of runs of the handler so far, and the counters
\* of the cache when it called the write method (atCall) and when it called the
\* last write method that returned success (acked).
NoTool ==
    [name |-> "none", pc |-> "idle", args |-> NullRec, pre |-> NoResultYet, preLog |-> <<>>,
     invoked |-> <<>>, answer |-> "", runs |-> 0,
     atCall |-> [sets |-> 0, clears |-> 0],
     acked |-> [is |-> FALSE, sets |-> 0, clears |-> 0]]

NoInvocation ==
    [op |-> "none", pc |-> "idle", id |-> 0, params |-> NullRec, apiData |-> NullRec,
     endpoint |-> 0, attempt |-> 0, attempts |-> <<>>, response |-> Null,
     before |-> NullRec, reread |-> Null, log |-> <<>>, waits |-> <<>>, thrown |-> "",
     result |-> NoResultYet, tool |-> NoTool]

SvcIdle ==
    /\ proc = [p \in Procs |-> NoInvocation]
    /\ up = UpIdle

\* The messages of the Errors that an access-layer call rejects with (formatError).
CallErrors == {"Network error", "WispHub API Error"}

\* The pending call of the invocation rejects with err.
Rejected(pr, err) == [pr EXCEPT !.log = MarkLast(@, "error"), !.thrown = err]

\* Mutant of Failed: the catch of a service method throws the error on.
Failed_Rethrows(pr, error) == [pr EXCEPT !.pc = "raised", !.thrown = error]

\* The catch of a service method: the failed ToolResponse, whose error is the
\* message of the Error caught (after the method's own prefix).
Failed(pr, error) ==
    [pr EXCEPT !.pc = "done", !.thrown = error,
               !.result = Result(FALSE, NullRec, error, NoDebug)]

(***************************************************************************)
(* ClienteService.obtenerCliente                                           *)
(***************************************************************************)

\* desactivarServicio, from the return of its obtenerCliente to its own return.
DesactivarReturn(pr, verifiedClienteResult) ==
    LET verifiedCliente ==
            IF verifiedClienteResult.success THEN verifiedClienteResult.data ELSE NullRec
    IN [pr EXCEPT
          !.pc = "done",
          !.result = Result(TRUE, [accion |-> "desactivar", motivo |-> pr.params.motivo], "",
                            [NoDebug EXCEPT
                               !.present = TRUE,
                               !.sentToAPI = pr.apiData,
                               !.apiResponse = pr.response,
                               !.verified = verifiedCliente,
                               !.verificationWorked = verifiedCliente # NullRec,
                               !.statusChanged = IF verifiedCliente # NullRec
                                                 THEN verifiedCliente.estado = Str("suspendido")
                                                 ELSE FALSE])]

\* A return of obtenerClienteWithRetry: to the tool, or to desactivarServicio.
ObtenerReturn(pr, res) ==
    IF pr.op = "desactivarServicio"
    THEN DesactivarReturn(pr, res)
    ELSE [pr EXCEPT !.pc = "done", !.result = res]

\* The phase of an invocation that a GET of the client belongs to.
ReadPhase(pr) == IF pr.op = "obtenerCliente" THEN "read" ELSE "verify"

\* Mutant of useCache: every attempt uses the cache.
useCache_Always(attempt) == cacheClientes

\* cacheTtl of an attempt: only the first one may use the cache (0: undefined).
useCache(attempt) == IF attempt = 1 THEN cacheClientes ELSE 0

\* An attempt awaits this.http.get.
ObtenerIssue(pr) ==
    [pr EXCEPT !.pc = "get",
               !.log = Append(@, Call("GET", "cliente", ReadPhase(pr), "network", "pending"))]

\* Mutant of ObtenerCatch: the catch of the last attempt waits for one more.
ObtenerCatch_OneMore(pr, error) ==
    IF pr.attempt > maxRetries
    THEN ObtenerReturn(pr, Result(FALSE, NullRec, error, NoDebug))
    ELSE [pr EXCEPT !.pc = "backoff", !.thrown = error]

\* The catch of an attempt: record it, then give up or wait for the backoff.
ObtenerCatch(pr, error) ==
    LET pr1 == [pr EXCEPT !.thrown = error, !.attempts =
                    Append(@, [attempt |-> pr.attempt, success |-> FALSE, error |-> error])]
    IN IF pr.attempt = maxRetries
       THEN ObtenerReturn(pr1, Result(FALSE, NullRec, error,
                [NoDebug EXCEPT !.present = TRUE, !.attempts = pr1.attempts,
                                !.allAttemptsFailed = TRUE]))
       ELSE [pr1 EXCEPT !.pc = "backoff", !.waits = Append(@, 1000 * pr.attempt)]

\* An attempt from the answer of get (cached or not) on: found, not found on the
\* last attempt, or not found and on to the next attempt, which never uses the
\* cache.
ObtenerResponse(pr, body) ==
    LET first == firstRecord(body)
        entry == [attempt |-> pr.attempt, success |-> TRUE, hasData |-> first # NullRec,
                  usedCache |-> useCache(pr.attempt) > 0]
        pr1 == [pr EXCEPT !.attempts = Append(@, entry)]
    IN IF first # NullRec
       THEN ObtenerReturn(pr1, Result(TRUE, clienteToUserFriendly(first), "",
                [NoDebug EXCEPT !.present = TRUE, !.attempts = pr1.attempts]))
       ELSE IF pr.attempt = maxRetries
            THEN ObtenerReturn(pr1, Result(TRUE, NullRec, "",
                     [NoDebug EXCEPT !.present = TRUE, !.attempts = pr1.attempts,
                                     !.noDataFound = TRUE]))
            ELSE ObtenerIssue([pr1 EXCEPT !.attempts = Append(@, entry),
                                          !.attempt = pr.attempt + 1])

\* An attempt up to its await of get, or through a cache hit: the invocation and
\* the cache it leaves.
ObtenerTry(pr, c, t) ==
    IF ~isValidServicioId(pr.id)
    THEN [inv |-> ObtenerCatch(pr, "ID de servicio invalido"), cache |-> c]
    ELSE IF useCache(pr.attempt) > 0
         THEN LET r == CacheGet(c, ClienteKey, t) IN
              IF CacheHit(r.value)
              THEN [inv |-> ObtenerResponse(
                                [pr EXCEPT !.reread = r.value,
                                           !.log = Append(@, Call("GET", "cliente",
                                                     ReadPhase(pr), "cache", "ok"))],
                                r.value),
                    cache |-> r.cache]
              ELSE [inv |-> ObtenerIssue(pr), cache |-> r.cache]
         ELSE [inv |-> ObtenerIssue(pr), cache |-> c]

\* obtenerCliente(clienteId) with a numeric clienteId.
ObtenerCliente(p, id) ==
    /\ proc[p].pc = "idle"
    /\ LET r == ObtenerTry([NoInvocation EXCEPT !.op = "obtenerCliente", !.id = id,
                                                !.attempt = 1], cm, now)
       IN /\ proc' = [proc EXCEPT ![p] = r.inv]
          /\ cm' = r.cache
    /\ UNCHANGED <<up, now, ops, got, written>>
    /\ UNCHANGED exceptSvc

\* The GET of the client is answered: cache the answer if the attempt uses the
\* cache, then go on with it.
GetClienteOk(p, shape) ==
    /\ proc[p].pc = "get"
    /\ LET body == Answer(shape, up.cliente)
           ttl == useCache(proc[p].attempt)
       IN /\ cm' = IF ttl > 0 THEN CacheSet(cm, ClienteKey, body, ttl, now) ELSE cm
          /\ proc' = [proc EXCEPT ![p] =
                         ObtenerResponse([proc[p] EXCEPT !.log = MarkLast(@, "ok"),
                                                         !.reread = body], body)]
    /\ UNCHANGED <<up, now, ops, got, written>>
    /\ UNCHANGED exceptSvc

\* The GET of the client fails.
GetClienteFail(p, err) ==
    /\ proc[p].pc = "get"
    /\ proc' = [proc EXCEPT ![p] = ObtenerCatch(Rejected(proc[p], err), err)]
    /\ UNCHANGED <<up, cm, now, ops, got, written>>
    /\ UNCHANGED exceptSvc

\* The backoff wait (1000 * attempt ms) is over: the next attempt.
BackoffElapsed(p) ==
    /\ proc[p].pc = "backoff"
    /\ LET r == ObtenerTry([proc[p] EXCEPT !.attempt = @ + 1], cm, now)
       IN /\ proc' = [proc EXCEPT ![p] = r.inv]
          /\ cm' = r.cache
    /\ UNCHANGED <<up, now, ops, got, written>>
    /\ UNCHANGED exceptSvc

(***************************************************************************)
(* ClienteService.actualizarCliente                                        *)
(***************************************************************************)

\* The PUT of the update is awaited on the endpoint at index i of endpointsToTry.
PutIssue(pr, i) ==
    [pr EXCEPT !.pc = "put", !.endpoint = i,
               !.log = Append(@, Call("PUT", "cliente", "write", "network", "pending"))]

\* Mutant of NoFieldsProvided: an update without fields is sent.
NoFieldsProvided_Never(apiData) == FALSE

\* Object.keys(apiData).length === 0
NoFieldsProvided(apiData) == Sent(apiData) = {}

\* actualizarCliente(params), up to its await of the first PUT.
ActualizarCliente(p, params) ==
    LET apiData == ApiCliente(
            IF params.comentarios # Undef THEN Trim(params.comentarios) ELSE Undef,
            IF params.email # Undef THEN Trim(params.email) ELSE Undef,
            Undef)
        pr == [NoInvocation EXCEPT !.op = "actualizarCliente", !.id = params.id_servicio,
                                   !.params = params, !.apiData = apiData,
                                   !.before = up.cliente]
    IN
    /\ proc[p].pc = "idle"
    /\ proc' = [proc EXCEPT ![p] =
          IF ~isValidServicioId(params.id_servicio)
          THEN Failed(pr, "ID de servicio invalido")
          ELSE IF NoFieldsProvided(apiData)
               THEN Failed(pr, "Debe proporcionar al menos un campo para actualizar")
               ELSE PutIssue(pr, 1)]
    /\ UNCHANGED <<up, cacheVars>>
    /\ UNCHANGED exceptSvc

\* Mutant of ClienteFallback: the update fails when it cannot be verified.
ClienteFallback_Fails(pr) == Failed(pr, "Verification failed")

\* The fallback return: the write response, transformed, with verificationFailed.
ClienteFallback(pr) ==
    LET transformed == clienteToUserFriendly(asRecord(pr.response)) IN
    [pr EXCEPT !.pc = "done",
               !.result = Result(TRUE, transformed, "",
                             [NoDebug EXCEPT !.present = TRUE,
                                             !.endpoint = endpointsToTry[pr.endpoint],
                                             !.sentToAPI = pr.apiData,
                                             !.apiResponse = pr.response,
                                             !.verified = NullRec,
                                             !.verificationFailed = TRUE])]

\* The PUT is acknowledged; the upstream persists the properties in applied and
\* answers with the record as stored (or, if echo, as sent) in the given shape.
\* A falsy answer fails the update; any other is followed by the verification GET,
\* which is given no cacheTtl.
PutClienteOk(p, applied, shape, echo) ==
    LET pr == proc[p]
        stored == Persist(up.cliente, pr.apiData, applied)
        response == Answer(shape, IF echo THEN Persist(up.cliente, pr.apiData, Sent(pr.apiData))
                                          ELSE stored)
        pr1 == [pr EXCEPT !.log = MarkLast(@, "ok"), !.response = response]
    IN
    /\ pr.op = "actualizarCliente"
    /\ pr.pc = "put"
    /\ up' = [up EXCEPT !.cliente = stored]
    /\ proc' = [proc EXCEPT ![p] =
          IF ~Truthy(response)
          THEN Failed(pr1, "La API no devolvio datos del cliente actualizado")
          ELSE [pr1 EXCEPT !.pc = "verify",
                           !.log = Append(@, Call("GET", "cliente", "verify", "network",
                                                  "pending"))]]
    /\ UNCHANGED cacheVars
    /\ UNCHANGED exceptSvc

\* Mutant of LastEndpoint: the first failure of the PUT ends the update.
LastEndpoint_Any(i) == TRUE

\* endpoint === endpointsToTry[endpointsToTry.length - 1]
LastEndpoint(i) == i = Len(endpointsToTry)

\* The PUT fails: try the next endpoint, or fail the update after the last one.
PutClienteFail(p, err) ==
    LET pr == Rejected(proc[p], err) IN
    /\ proc[p].op = "actualizarCliente"
    /\ proc[p].pc = "put"
    /\ proc' = [proc EXCEPT ![p] =
          IF LastEndpoint(pr.endpoint)
          THEN Failed(pr, err)
          ELSE PutIssue(pr, pr.endpoint + 1)]
    /\ UNCHANGED <<up, cacheVars>>
    /\ UNCHANGED exceptSvc

\* The verification GET is answered: a record gives the verified return, no
\* record the fallback.
VerifyClienteOk(p, shape) ==
    LET pr == [proc[p] EXCEPT !.log = MarkLast(@, "ok"),
                              !.reread = Answer(shape, up.cliente)]
        verifiedCliente == firstRecord(pr.reread)
    IN
    /\ proc[p].op = "actualizarCliente"
    /\ proc[p].pc = "verify"
    /\ proc' = [proc EXCEPT ![p] =
          IF verifiedCliente # NullRec
          THEN [pr EXCEPT !.pc = "done",
                          !.result = Result(TRUE, clienteToUserFriendly(verifiedCliente), "",
                                        [NoDebug EXCEPT !.present = TRUE,
                                                        !.endpoint = endpointsToTry[pr.endpoint],
                                                        !.sentToAPI = pr.apiData,
                                                        !.apiResponse = pr.response,
                                                        !.verified = verifiedCliente])]
          ELSE ClienteFallback(pr)]
    /\ UNCHANGED <<up, cacheVars>>
    /\ UNCHANGED exceptSvc

\* The verification GET fails: the fallback.
VerifyClienteFail(p, err) ==
    /\ proc[p].op = "actualizarCliente"
    /\ proc[p].pc = "verify"
    /\ proc' = [proc EXCEPT ![p] = ClienteFallback(Rejected(proc[p], err))]
    /\ UNCHANGED <<up, cacheVars>>
    /\ UNCHANGED exceptSvc

\* Mutant of fieldMatches: every field sent is reported as matching.
fieldMatches_Always(sentValue, currentValue) == TRUE

\* formatClienteUpdateResponse, per-field verification: sentValue === currentValue.
fieldMatches(sentValue, currentValue) == sentValue = currentValue

\* "Verificacion funciono", as both update tools print it: !!debugInfo.verified...
verificacionFunciono(debugInfo) == debugInfo.verified # NullRec

\* The per-field report of formatClienteUpdateResponse: for every property sent,
\* whether the verified record holds the value sent. No report without a
\* verified record.
verifiedFields(debugInfo) ==
    IF debugInfo.present /\ debugInfo.verified # NullRec /\ debugInfo.sentToAPI # NullRec
    THEN [f \in Sent(debugInfo.sentToAPI) |->
             IF fieldMatches(debugInfo.sentToAPI[f], Get(debugInfo.verified, f))
             THEN "COINCIDE" ELSE "NO COINCIDE"]
    ELSE [f \in {} |-> "NO COINCIDE"]

(***************************************************************************)
(* ClienteService.activarServicio, desactivarServicio, cancelarServicio    *)
(***************************************************************************)

\* The PATCH of the state change is awaited.
PatchIssue(pr) ==
    [pr EXCEPT !.pc = "patch",
               !.log = Append(@, Call("PATCH", "cliente", "write", "network", "pending"))]

\* !params.motivo || params.motivo.trim().length === 0
MotivoMissing(params) == ~TruthyStr(params.motivo) \/ Trim(params.motivo) = EmptyStr

\* activarServicio(params), up to its await of the PATCH: the invocation.
activarServicio(params) ==
    LET apiData == ApiCliente(IF TruthyStr(params.motivo) THEN params.motivo ELSE Undef,
                              Undef, Str("Activo"))
        pr == [NoInvocation EXCEPT !.op = "activarServicio", !.id = params.id_servicio,
                                   !.params = params, !.apiData = apiData,
                                   !.before = up.cliente]
    IN IF ~isValidServicioId(params.id_servicio)
       THEN Failed(pr, "ID de servicio invalido")
       ELSE PatchIssue(pr)

ActivarServicio(p, params) ==
    /\ proc[p].pc = "idle"
    /\ proc' = [proc EXCEPT ![p] = activarServicio(params)]
    /\ UNCHANGED <<up, cacheVars>>
    /\ UNCHANGED exceptSvc

\* desactivarServicio(params), up to its await of the PATCH: the invocation.
desactivarServicio(params) ==
    LET apiData == ApiCliente(IF MotivoMissing(params) THEN Undef ELSE Trim(params.motivo),
                              Undef, Str("Suspendido"))
        pr == [NoInvocation EXCEPT !.op = "desactivarServicio", !.id = params.id_servicio,
                                   !.params = params, !.apiData = apiData,
                                   !.before = up.cliente]
    IN IF ~isValidServicioId(params.id_servicio)
       THEN Failed(pr, "ID de servicio invalido")
       ELSE IF MotivoMissing(params)
            THEN Failed(pr, "Motivo es obligatorio para desactivar servicio")
            ELSE PatchIssue(pr)

DesactivarServicio(p, params) ==
    /\ proc[p].pc = "idle"
    /\ proc' = [proc EXCEPT ![p] = desactivarServicio(params)]
    /\ UNCHANGED <<up, cacheVars>>
    /\ UNCHANGED exceptSvc

\* cancelarServicio(params), up to its await of the PATCH: the invocation.
cancelarServicio(params) ==
    LET apiData == ApiCliente(IF MotivoMissing(params) THEN Undef ELSE Trim(params.motivo),
                              Undef, Str("Cancelado"))
        pr == [NoInvocation EXCEPT !.op = "cancelarServicio", !.id = params.id_servicio,
                                   !.params = params, !.apiData = apiData,
                                   !.before = up.cliente]
    IN IF ~isValidServicioId(params.id_servicio)
       THEN Failed(pr, "ID de servicio invalido")
       ELSE IF MotivoMissing(params)
            THEN Failed(pr, "Motivo es obligatorio para cancelar servicio")
            ELSE PatchIssue(pr)

CancelarServicio(p, params) ==
    /\ proc[p].pc = "idle"
    /\ proc' = [proc EXCEPT ![p] = cancelarServicio(params)]
    /\ UNCHANGED <<up, cacheVars>>
    /\ UNCHANGED exceptSvc

\* The return of activarServicio and of cancelarServicio after their PATCH.
EstadoReturn(pr, accion) ==
    [pr EXCEPT !.pc = "done",
               !.result = Result(TRUE, [accion |-> accion, motivo |-> pr.params.motivo], "",
                                 NoDebug)]

\* The PATCH is acknowledged; the upstream persists the properties in applied.
\* activarServicio and cancelarServicio return. desactivarServicio clears the
\* cache and calls obtenerCliente, which runs up to the await of its first GET.
PatchOk(p, applied, shape, echo) ==
    LET pr == proc[p]
        stored == Persist(up.cliente, pr.apiData, applied)
        response == Answer(shape, IF echo THEN Persist(up.cliente, pr.apiData, Sent(pr.apiData))
                                          ELSE stored)
        pr1 == [pr EXCEPT !.log = MarkLast(@, "ok"), !.response = response]
        r == ObtenerTry([pr1 EXCEPT !.attempt = 1], CacheClear(cm), now)
    IN
    /\ pr.pc = "patch"
    /\ up' = [up EXCEPT !.cliente = stored]
    /\ IF pr.op = "desactivarServicio"
       THEN /\ proc' = [proc EXCEPT ![p] = r.inv]
            /\ cm' = r.cache
       ELSE /\ proc' = [proc EXCEPT ![p] =
                  EstadoReturn(pr1, IF pr.op = "activarServicio" THEN "activar" ELSE "cancelar")]
            /\ cm' = cm
    /\ UNCHANGED <<now, ops, got, written>>
    /\ UNCHANGED exceptSvc

\* The PATCH fails: the catch of the three methods.
PatchFail(p, err) ==
    /\ proc[p].pc = "patch"
    /\ proc' = [proc EXCEPT ![p] = Failed(Rejected(proc[p], err), err)]
    /\ UNCHANGED <<up, cacheVars>>
    /\ UNCHANGED exceptSvc

(***************************************************************************)
(* TicketService.actualizarTicket                                          *)
(***************************************************************************)

\* razonMap[updates.estado] || 'Otro'
razonFalla(estado) ==
    LET mapped == CASE estado = Str("nuevo") -> EmptyStr
                    [] estado = Str("en_progreso") -> Str("Internet Intermitente")
                    [] estado = Str("resuelto") -> Str("Otro")
                    [] estado = Str("cerrado") -> Str("Otro")
                    [] OTHER -> Undef
    IN IF TruthyStr(mapped) THEN mapped ELSE Str("Otro")

\* /^\d+$/.test(s), on tokens
DigitTokens == {"3288010"}
IsNumeric(s) == s # EmptyStr /\ \A i \in 1..Len(s) : s[i] \in DigitTokens

\* s.includes('@')
IncludesAt(s) == \E i \in 1..Len(s) : s[i] = "@"

\* apiData of actualizarTicket: the state with its reason code, the priority, and
\* the technician only if it is an id or an e-mail address.
ticketApiData(updates) ==
    LET tecnicoTrimmed == Trim(updates.tecnico)
        validTecnico == /\ TruthyStr(updates.tecnico)
                        /\ IsNumeric(tecnicoTrimmed) \/ IncludesAt(tecnicoTrimmed)
    IN [NoTicket EXCEPT
          !.estado = IF TruthyStr(updates.estado)
                     THEN estadoTicketToNumber(updates.estado) ELSE Undef,
          !.razon_falla = IF TruthyStr(updates.estado)
                          THEN razonFalla(updates.estado) ELSE Undef,
          !.prioridad = IF TruthyStr(updates.prioridad)
                        THEN prioridadTicketToNumber(updates.prioridad) ELSE Undef,
          !.tecnico = IF validTecnico THEN tecnicoTrimmed ELSE Undef,
          !.email_tecnico = IF validTecnico
                            THEN IF IncludesAt(tecnicoTrimmed) THEN tecnicoTrimmed
                                                               ELSE EmptyStr
                            ELSE Undef]

\* The date of t in WispHub's format: toLocaleDateString + ' ' + toLocaleTimeString.
wisphubDateFormat(t) == <<"dd/mm/yyyy", " ", "hh:mm:ss">>

\* Mutant of closeDates: no dates are set on a state change.
closeDates_None(cleaned, estado, t) == cleaned

\* The dates that a state change sets on the current ticket: the start of the
\* work if none is set, and for resuelto and cerrado the end and who ended it.
closeDates(cleaned, estado, t) ==
    IF ~TruthyStr(estado) THEN cleaned
    ELSE IF estado = Str("en_progreso")
         THEN [cleaned EXCEPT !.fecha_inicio =
                  IF TruthyStr(@) THEN @ ELSE wisphubDateFormat(t)]
         ELSE IF estado \in {Str("resuelto"), Str("cerrado")}
              THEN [cleaned EXCEPT
                      !.fecha_fin = wisphubDateFormat(t),
                      !.finalizado_por = Str("admin@almacreativa"),
                      !.fecha_inicio = IF TruthyStr(@) THEN @ ELSE wisphubDateFormat(t)]
              ELSE cleaned

\* `\n\n--- ACTUALIZACION ${timestamp} ---\n`
NotesMarker == <<"--- ACTUALIZACION ", "timestamp", " ---">>

\* Mutant of appendNotes: the notes replace the description.
appendNotes_Replace(descripcion, notas) == Trim(notas)

\* currentDescripcion + marker + updates.notas.trim()
appendNotes(descripcion, notas) == OrEmpty(descripcion) \o NotesMarker \o Trim(notas)

\* The properties deleted from the current ticket before the merge.
Denylist == {"tickets_mensual", "tickets_anual", "vencimiento", "archivo_ticket", "respuestas"}
Strip(t) == [f \in DOMAIN t |-> IF f \in Denylist THEN Undef ELSE t[f]]

\* The cleaning of the current ticket before the merge: text priorities and
\* text states become the numbers WispHub expects, the origin is set, an empty
\* technician is removed, the notes are appended to the description, and the
\* dates of the state change are set; the denylisted properties are deleted.
CleanTicket(t, updates, at) ==
    LET prioridad == Get(t, "prioridad")
        estado == Get(t, "estado")
        numbered ==
            [t EXCEPT
               !.estado =
                   IF estado \in {Undef, Str("1"), Str("2"), Str("3"), Str("4")}
                   THEN estado
                   ELSE CASE estado = Str("Nuevo") -> Str("1")
                          [] estado = Str("En Progreso") -> Str("2")
                          [] estado = Str("Resuelto") -> Str("3")
                          [] estado = Str("Cerrado") -> Str("4")
                          [] OTHER -> Str("1"),
               !.prioridad =
                   CASE prioridad = Str("Alta") -> Str("3")
                     [] prioridad = Str("Normal") -> Str("2")
                     [] prioridad = Str("Baja") -> Str("1")
                     [] OTHER -> prioridad,
               !.origen_reporte = Str("portal_cliente")]
        noTecnico == ~TruthyStr(numbered.tecnico) \/ Trim(numbered.tecnico) = EmptyStr
        assigned == IF noTecnico
                    THEN [numbered EXCEPT !.tecnico = Undef, !.email_tecnico = Undef]
                    ELSE numbered
        noted == IF TruthyStr(updates.notas)
                 THEN [assigned EXCEPT !.descripcion = appendNotes(@, updates.notas)]
                 ELSE assigned
    IN Strip(closeDates(noted, updates.estado, at))

\* putData = {...cleanedCurrentData, ...apiData}
MergeTicket(cleaned, apiData) ==
    [f \in DOMAIN cleaned |-> IF f \in Sent(apiData) THEN apiData[f] ELSE cleaned[f]]

\* The check of the actualizar_ticket handler: estado || prioridad || tecnico || notas
hasUpdates(args) ==
    \/ TruthyStr(args.estado) \/ TruthyStr(args.prioridad)
    \/ TruthyStr(args.tecnico) \/ TruthyStr(args.notas)

\* The actualizar_ticket handler, which refuses arguments without updates, and
\* actualizarTicket(ticketId, updates) up to its await of the GET of the current
\* ticket.
ActualizarTicket(p, ticketId, updates) ==
    LET pr == [NoInvocation EXCEPT
                  !.op = "actualizarTicket", !.id = ticketId, !.params = updates,
                  !.apiData = ticketApiData(updates)]
    IN
    /\ proc[p].pc = "idle"
    /\ proc' = [proc EXCEPT ![p] =
          IF ~hasUpdates(updates)
          THEN [pr EXCEPT !.pc = "refused"]
          ELSE [pr EXCEPT !.pc = "current",
                          !.log = <<Call("GET", "ticket", "pre", "network", "pending")>>]]
    /\ UNCHANGED <<up, cacheVars>>
    /\ UNCHANGED exceptSvc

\* The GET of the current ticket is answered: without a record the update fails,
\* with one the merged ticket is PUT.
TicketCurrentOk(p, shape) ==
    LET pr == [proc[p] EXCEPT !.log = MarkLast(@, "ok")]
        completeTicketData == firstRecord(Answer(shape, up.ticket))
        putData == MergeTicket(CleanTicket(completeTicketData, pr.params, now), pr.apiData)
    IN
    /\ proc[p].pc = "current"
    /\ proc' = [proc EXCEPT ![p] =
          IF completeTicketData = NullRec
          THEN Failed(pr, "Could not get current ticket data for update")
          ELSE [pr EXCEPT !.pc = "put", !.apiData = putData, !.before = up.ticket,
                          !.log = Append(@, Call("PUT", "ticket", "write", "network",
                                                 "pending"))]]
    /\ UNCHANGED <<up, cacheVars>>
    /\ UNCHANGED exceptSvc

\* The GET of the current ticket fails.
TicketCurrentFail(p, err) ==
    /\ proc[p].pc = "current"
    /\ proc' = [proc EXCEPT ![p] = Failed(Rejected(proc[p], err), err)]
    /\ UNCHANGED <<up, cacheVars>>
    /\ UNCHANGED exceptSvc

\* The ticket that actualizarTicket reads out of the PUT response (null: none).
TicketOfResponse(response) ==
    IF firstRecord(response) = NullRec THEN NullRec
    ELSE ticketToUserFriendly(firstRecord(response))

\* The PUT is acknowledged; the upstream persists the properties in applied. An
\* answer that is no object or holds no ticket fails the update; any other is
\* followed by the verification GET, which is given no cacheTtl.
TicketPutOk(p, applied, shape, echo) ==
    LET pr == proc[p]
        stored == Persist(up.ticket, pr.apiData, applied)
        response == Answer(shape, IF echo THEN Persist(up.ticket, pr.apiData, Sent(pr.apiData))
                                          ELSE stored)
        pr1 == [pr EXCEPT !.log = MarkLast(@, "ok"), !.response = response]
    IN
    /\ pr.op = "actualizarTicket"
    /\ pr.pc = "put"
    /\ up' = [up EXCEPT !.ticket = stored]
    /\ proc' = [proc EXCEPT ![p] =
          IF shape \in {"text", "null"}
          THEN Failed(pr1, "Respuesta inesperada de la API")
          ELSE IF TicketOfResponse(response) = NullRec
               THEN Failed(pr1, "La API no devolvio datos del ticket actualizado")
               ELSE [pr1 EXCEPT !.pc = "verify",
                                !.log = Append(@, Call("GET", "ticket", "verify", "network",
                                                       "pending"))]]
    /\ UNCHANGED cacheVars
    /\ UNCHANGED exceptSvc

\* The PUT fails.
TicketPutFail(p, err) ==
    /\ proc[p].op = "actualizarTicket"
    /\ proc[p].pc = "put"
    /\ proc' = [proc EXCEPT ![p] = Failed(Rejected(proc[p], err), err)]
    /\ UNCHANGED <<up, cacheVars>>
    /\ UNCHANGED exceptSvc

\* The return of actualizarTicket: the verified ticket transformed, or without
\* one the ticket of the PUT response.
TicketReturn(pr, verifiedTicket) ==
    [pr EXCEPT !.pc = "done",
               !.result = Result(TRUE,
                             IF verifiedTicket # NullRec
                             THEN ticketToUserFriendly(verifiedTicket)
                             ELSE TicketOfResponse(pr.response),
                             "",
                             [NoDebug EXCEPT !.present = TRUE, !.sentToAPI = pr.apiData,
                                             !.apiResponse = pr.response,
                                             !.verified = verifiedTicket])]

\* The verification GET is answered.
TicketVerifyOk(p, shape) ==
    /\ proc[p].op = "actualizarTicket"
    /\ proc[p].pc = "verify"
    /\ proc' = [proc EXCEPT ![p] =
                   TicketReturn([proc[p] EXCEPT !.log = MarkLast(@, "ok"),
                                                !.reread = Answer(shape, up.ticket)],
                                firstRecord(Answer(shape, up.ticket)))]
    /\ UNCHANGED <<up, cacheVars>>
    /\ UNCHANGED exceptSvc

\* The verification GET fails.
TicketVerifyFail(p, err) ==
    /\ proc[p].op = "actualizarTicket"
    /\ proc[p].pc = "verify"
    /\ proc' = [proc EXCEPT ![p] = TicketReturn(Rejected(proc[p], err), NullRec)]
    /\ UNCHANGED <<up, cacheVars>>
    /\ UNCHANGED exceptSvc

(***************************************************************************)
(* consultarClientes, crearTicket, obtenerTicketsCliente, consultarSaldo   *)
(***************************************************************************)

\* The operations that make one access-layer call, each through the
\* WispHubClient of the service instance of its own tool, whose cache holds
\* nothing at the first invocation.
SingleCallOps == {"consultarClientes", "crearTicket", "obtenerTicketsCliente", "consultarSaldo"}

\* 1000 * 60 * 60 * 24 ms, in half days.
DayMs == 2

\* Math.ceil(a / b), for b > 0.
CeilDiv(a, b) == -((-a) \div b)

\* x || 0, for a number: 0 for undefined, NaN and 0.
OrZero(x) == IF x.kind = "num" /\ x.n # 0 THEN x ELSE Num(0)

\* x <= k: false when x is NaN or undefined.
Leq(x, k) == x.kind = "num" /\ x.n <= k

\* DataTransformer.determinarEstadoVencimiento
determinarEstadoVencimiento(diasVencido) ==
    IF Leq(diasVencido, 0) THEN Str("vigente")
    ELSE IF Leq(diasVencido, 30) THEN Str("vencida") ELSE Str("muy_vencida")

\* Math.max(...facturas.map(f => f.dias_vencido || 0)), for a list that is not
\* empty.
maxDiasVencido(facturas) ==
    LET dias == {OrZero(facturas[i].dias_vencido).n : i \in 1..Len(facturas)}
    IN CHOOSE m \in dias : \A d \in dias : d <= m

\* DataTransformer.determinarEstadoCuenta
determinarEstadoCuenta(facturas) ==
    IF Len(facturas) = 0 THEN Str("al_corriente")
    ELSE IF maxDiasVencido(facturas) <= 0 THEN Str("al_corriente")
         ELSE IF maxDiasVencido(facturas) <= 30 THEN Str("con_atraso")
              ELSE Str("muy_atrasado")

\* saldoToUserFriendly: the days overdue of an invoice, given by the upstream or,
\* when 0 or not given and there is a due date, computed from it:
\* Math.max(0, Math.ceil(diffTime / day)), NaN for a due date that is no date.
diasVencidoOf(factura) ==
    LET diasVencido == OrZero(factura.dias_vencido)
        fecha == factura.fecha_vencimiento
    IN IF diasVencido.n = 0 /\ fecha.kind # "undefined"
       THEN IF fecha.kind = "invalid" THEN NaN
            ELSE Num(IF CeilDiv(fecha.ago, DayMs) > 0 THEN CeilDiv(fecha.ago, DayMs) ELSE 0)
       ELSE diasVencido

\* DataTransformer.saldoToUserFriendly, on the balance (saldo_actual || saldo ||
\* 0) and on the invoices (facturas_pendientes || facturas || []).
saldoToUserFriendly(apiSaldo) ==
    LET facturas == IF apiSaldo.facturas_pendientes.set THEN apiSaldo.facturas_pendientes.items
                    ELSE IF apiSaldo.facturas.set THEN apiSaldo.facturas.items ELSE <<>>
        facturasWithVencimiento ==
            [i \in 1..Len(facturas) |->
                [facturas[i] EXCEPT !.dias_vencido = diasVencidoOf(facturas[i])]]
    IN [saldo_actual_numerico |->
            IF TruthyStr(Get(apiSaldo, "saldo_actual")) THEN apiSaldo.saldo_actual
            ELSE IF TruthyStr(Get(apiSaldo, "saldo")) THEN apiSaldo.saldo
            ELSE Str("0"),
        estado_cuenta |-> determinarEstadoCuenta(facturasWithVencimiento),
        facturas |->
            [i \in 1..Len(facturas) |->
                [dias_vencido |-> facturasWithVencimiento[i].dias_vencido,
                 estado_vencimiento |->
                     determinarEstadoVencimiento(facturasWithVencimiento[i].dias_vencido)]]]

\* The call of each operation.
SingleCall(op) ==
    CASE op = "consultarClientes" -> Call("GET", "clientes", "read", "network", "pending")
      [] op = "crearTicket" -> Call("POST", "ticket", "write", "network", "pending")
      [] op = "obtenerTicketsCliente" -> Call("GET", "tickets", "read", "network", "pending")
      [] op = "consultarSaldo" -> Call("GET", "saldo", "read", "network", "pending")

\* The record that the upstream answers about: a client, the ticket created
\* (new, with the default priority), a ticket of the service, its balance.
SingleRecord(op) ==
    CASE op = "consultarClientes" -> up.cliente
      [] op = "crearTicket" -> ApiTicket(Str("1"), prioridadTicketToNumber(Str("normal")))
      [] op = "obtenerTicketsCliente" -> up.ticket
      [] op = "consultarSaldo" -> up.saldo

\* A list as the data of a ToolResponse.
Items(seq) == [items |-> seq]

\* Each operation from the answer of its call to its return.
SingleReturn(pr, body) ==
    CASE pr.op = "consultarClientes" ->
           \* Array.isArray(response) ? response : response.results || []
           IF body.shape = "null"
           THEN Failed(pr, "Cannot read properties of null")
           ELSE [pr EXCEPT !.pc = "done",
                           !.result = Result(TRUE,
                               Items(IF body.shape \in {"array", "page"}
                                     THEN <<clienteToUserFriendly(body.rec)>> ELSE <<>>),
                               "", NoDebug)]
      [] pr.op = "crearTicket" ->
           \* ticketToUserFriendly(response)
           IF body.shape = "null"
           THEN Failed(pr, "Cannot read properties of null")
           ELSE [pr EXCEPT !.pc = "done",
                           !.result = Result(TRUE, ticketToUserFriendly(asRecord(body)), "",
                                             NoDebug)]
      [] pr.op = "obtenerTicketsCliente" ->
           \* Array.isArray(response) ? response : []
           [pr EXCEPT !.pc = "done",
                      !.result = Result(TRUE,
                          Items(IF body.shape = "array"
                                THEN <<ticketToUserFriendly(body.rec)>> ELSE <<>>),
                          "", NoDebug)]
      [] pr.op = "consultarSaldo" ->
           IF body.shape \in {"null", "text"}
           THEN Failed(pr, "Respuesta invalida de la API de saldo")
           ELSE IF body.shape \in {"empty_array", "empty_page"}
                THEN Failed(pr, "No se encontro informacion de saldo para este cliente")
                ELSE [pr EXCEPT !.pc = "done",
                                !.result = Result(TRUE, saldoToUserFriendly(firstRecord(body)),
                                                  "", [NoDebug EXCEPT !.present = TRUE])]

\* One of the operations is called: those that take a service id validate it,
\* then the call is awaited.
SingleInvoke(p, op, id) ==
    LET pr == [NoInvocation EXCEPT !.op = op, !.id = id] IN
    /\ proc[p].pc = "idle"
    /\ proc' = [proc EXCEPT ![p] =
          IF op # "consultarClientes" /\ ~isValidServicioId(id)
          THEN Failed(pr, "ID de servicio invalido")
          ELSE [pr EXCEPT !.pc = "call", !.log = <<SingleCall(op)>>]]
    /\ UNCHANGED <<up, cacheVars>>
    /\ UNCHANGED exceptSvc

\* The call is answered.
SingleOk(p, shape) ==
    LET body == Answer(shape, SingleRecord(proc[p].op)) IN
    /\ proc[p].pc = "call"
    /\ proc' = [proc EXCEPT ![p] =
          SingleReturn([proc[p] EXCEPT !.log = MarkLast(@, "ok"), !.reread = body], body)]
    /\ UNCHANGED <<up, cacheVars>>
    /\ UNCHANGED exceptSvc

\* The call fails: the catch of the operation.
SingleFail(p, err) ==
    /\ proc[p].pc = "call"
    /\ proc' = [proc EXCEPT ![p] = Failed(Rejected(proc[p], err), err)]
    /\ UNCHANGED <<up, cacheVars>>
    /\ UNCHANGED exceptSvc

(***************************************************************************)
(* The tool invocations and the upstream's answers                         *)
(***************************************************************************)

ServicioIds == {0, 1}
ClienteFields == {"comentarios", "email", "estado"}
TicketFields == {"estado", "prioridad"}
AllTicketFields == DOMAIN NoTicket

\* Inputs of actualizar_cliente.
ComentariosInputs == {Undef, <<"x">>, <<" ", "x", " ">>, <<" ">>}
EmailInputs == {Undef, <<"e@x">>}
ActualizarClienteInputs ==
    {[id_servicio |-> i, comentarios |-> c, email |-> e] :
        i \in ServicioIds, c \in ComentariosInputs, e \in EmailInputs}

\* Inputs of the three state changes.
MotivoInputs == {Undef, <<" ">>, <<"m">>, <<" ", "m">>}
EstadoInputs == {[id_servicio |-> i, motivo |-> m] : i \in ServicioIds, m \in MotivoInputs}

\* Inputs of actualizar_ticket.
NoUpdates == [estado |-> Undef, prioridad |-> Undef, tecnico |-> Undef, notas |-> Undef]
TicketInputs ==
    {[NoUpdates EXCEPT !.estado = e, !.prioridad = q] :
        e \in {Undef, Str("en_progreso"), Str("resuelto"), Str("cerrado")},
        q \in {Undef, Str("alta")}}
    \cup {[NoUpdates EXCEPT !.tecnico = t] :
             t \in {<<"juan">>, <<" ", "3288010">>, <<"t", "@", "x">>}}
    \cup {[NoUpdates EXCEPT !.notas = <<"n", " ">>],
          [NoUpdates EXCEPT !.estado = Str("resuelto"), !.notas = <<"n">>,
                            !.tecnico = <<"3288010">>]}

\* What the upstream holds at the start.
UpStates ==
    {[UpIdle EXCEPT !.cliente = ApiCliente(c, Str("e@old"), Str("Activo")), !.ticket = t] :
        c \in {Str("old"), Str("x")},
        t \in {ApiTicket(Str("1"), Str("2")), ApiTicket(Str("Nuevo"), Str("Alta"))}}

(***************************************************************************)
(* The handler of cambiar_estado_servicio                                  *)
(***************************************************************************)

\* Bound: the runs of the handler in one behaviour.
MaxRuns == 2

\* CambiarEstadoServicioInputSchema: id_servicio positive, nuevo_estado one of
\* the three states, motivo of at least one character.
validArgs(args) ==
    /\ args.id_servicio > 0
    /\ args.nuevo_estado \in {Str("activo"), Str("suspendido"), Str("cancelado")}
    /\ args.motivo # Undef /\ args.motivo # EmptyStr

\* Mutant of yaEnEstado: the handler never finds the state already there.
yaEnEstado_Never(estadoActual, nuevo_estado) == FALSE

\* estadoActual === validatedArgs.nuevo_estado
yaEnEstado(estadoActual, nuevo_estado) == estadoActual = nuevo_estado

\* The service method that the handler calls for the target state, up to the
\* await of its PATCH.
cambiarEstado(args) ==
    LET params == [id_servicio |-> args.id_servicio, motivo |-> args.motivo] IN
    IF args.nuevo_estado = Str("activo") THEN activarServicio(params)
    ELSE IF args.nuevo_estado = Str("suspendido") THEN desactivarServicio(params)
         ELSE cancelarServicio(params)

\* The handler is called: arguments that fail the schema are answered at once;
\* otherwise obtenerCliente is called and runs to its first await or, on a cache
\* hit, to its return.
CambiarEstadoServicio(p, args) ==
    LET old == proc[p].tool
        t == [NoTool EXCEPT !.name = "cambiar_estado_servicio", !.args = args,
                            !.runs = old.runs + 1, !.acked = old.acked]
        r == ObtenerTry([NoInvocation EXCEPT !.op = "obtenerCliente",
                                             !.id = args.id_servicio, !.attempt = 1,
                                             !.tool = [t EXCEPT !.pc = "read"]], cm, now)
    IN
    /\ proc[p].pc = "idle" \/ old.pc = "returned"
    /\ old.pc \in {"idle", "returned"}
    /\ old.runs < MaxRuns
    /\ IF validArgs(args)
       THEN /\ proc' = [proc EXCEPT ![p] = r.inv]
            /\ cm' = r.cache
       ELSE /\ proc' = [proc EXCEPT ![p] =
                  [NoInvocation EXCEPT !.tool = [t EXCEPT !.pc = "returned",
                                                          !.answer = "validacion"]]]
            /\ cm' = cm
    /\ UNCHANGED <<up, now, ops, got, written>>
    /\ UNCHANGED exceptSvc

\* obtenerCliente has returned to the handler: without a client the handler
\* answers that it was not found, with the client already in the target state
\* that there is nothing to change; otherwise it calls the method of the target
\* state, which runs to the await of its PATCH.
CambiarEstadoAfterRead(p) ==
    LET pr == proc[p]
        clienteResult == pr.result
        t == [pr.tool EXCEPT !.pre = clienteResult, !.preLog = pr.log]
        started == cambiarEstado(t.args)
    IN
    /\ pr.tool.name = "cambiar_estado_servicio"
    /\ pr.tool.pc = "read"
    /\ pr.pc = "done"
    /\ proc' = [proc EXCEPT ![p] =
          IF ~clienteResult.success \/ clienteResult.data = NullRec
          THEN [pr EXCEPT !.tool = [t EXCEPT !.pc = "returned", !.answer = "no encontrado"]]
          ELSE IF yaEnEstado(clienteResult.data.estado, t.args.nuevo_estado)
               THEN [pr EXCEPT !.tool = [t EXCEPT !.pc = "returned", !.answer = "ya esta"]]
               ELSE [started EXCEPT !.tool =
                        [t EXCEPT !.pc = "write",
                                  !.invoked = Append(@, started.op),
                                  !.atCall = [sets |-> cm.stats.sets,
                                              clears |-> cm.stats.clears]]]]
    /\ UNCHANGED <<up, cacheVars>>
    /\ UNCHANGED exceptSvc

\* The method of the target state has returned to the handler, which answers.
CambiarEstadoAfterWrite(p) ==
    LET pr == proc[p] IN
    /\ pr.tool.name = "cambiar_estado_servicio"
    /\ pr.tool.pc = "write"
    /\ pr.pc = "done"
    /\ proc' = [proc EXCEPT ![p].tool =
          [@ EXCEPT !.pc = "returned",
                    !.answer = IF pr.result.success THEN "ok" ELSE "error",
                    !.acked = IF pr.result.success
                              THEN [is |-> TRUE, sets |-> pr.tool.atCall.sets,
                                    clears |-> pr.tool.atCall.clears]
                              ELSE @]]
    /\ UNCHANGED <<up, cacheVars>>
    /\ UNCHANGED exceptSvc

\* The arguments given to the handler.
CambiarEstadoInputs ==
    {[id_servicio |-> i, nuevo_estado |-> e, motivo |-> m] :
        i \in ServicioIds,
        e \in {Str("activo"), Str("suspendido"), Str("cancelado")},
        m \in {<<"m">>, <<" ">>}}

\* The handler of cambiar_estado_servicio run again and again on its own
\* ClienteService, over a client in any of the three states: its calls are
\* answered with the record or with none, or fail, and the upstream persists a
\* state change or ignores it.
ToolInit ==
    /\ proc = [p \in Procs |-> NoInvocation]
    /\ up \in {[UpIdle EXCEPT !.cliente.estado = s] :
                  s \in {Str("Activo"), Str("Suspendido"), Str("Cancelado")}}
    /\ HttpIdle /\ CacheIdle /\ ClientIdle

ToolNext ==
    \/ \E args \in CambiarEstadoInputs : CambiarEstadoServicio(1, args)
    \/ CambiarEstadoAfterRead(1)
    \/ CambiarEstadoAfterWrite(1)
    \/ \E shape \in {"object", "empty_array"} : GetClienteOk(1, shape)
    \/ GetClienteFail(1, "Network error")
    \/ BackoffElapsed(1)
    \/ \E applied \in {{}, ClienteFields} : PatchOk(1, applied, "object", FALSE)
    \/ PatchFail(1, "Network error")

SpecTool == ToolInit /\ [][ToolNext]_vars

\* The invocations that the tools in P may start, with the inputs given: the
\* read and the three methods that verify their write.
Invoke(P, IDS, CI, EI, TI) ==
    \/ \E p \in P, id \in IDS : ObtenerCliente(p, id)
    \/ \E p \in P, params \in CI : ActualizarCliente(p, params)
    \/ \E p \in P, params \in EI : DesactivarServicio(p, params)
    \/ \E p \in P, updates \in TI : ActualizarTicket(p, 1, updates)

\* The two state changes that only write.
InvokeWriteOnly(P, EI) ==
    \/ \E p \in P, params \in EI : ActivarServicio(p, params)
    \/ \E p \in P, params \in EI : CancelarServicio(p, params)

\* The ends of the awaits of the invocations in P: the access-layer calls
\* resolve with an answer in one of the shapes SH, after a write of which the
\* upstream persisted one of the sets of properties in AC (client) or AT (ticket)
\* and answered with the record as stored or (EC) as sent, or they reject with
\* one of the errors ER; the backoff waits end.
Resume(P, SH, AC, AT, EC, ER) ==
    \/ \E p \in P, shape \in SH : GetClienteOk(p, shape)
    \/ \E p \in P, err \in ER : GetClienteFail(p, err)
    \/ \E p \in P : BackoffElapsed(p)
    \/ \E p \in P, applied \in AC, shape \in SH, echo \in EC :
          PutClienteOk(p, applied, shape, echo)
    \/ \E p \in P, err \in ER : PutClienteFail(p, err)
    \/ \E p \in P, shape \in SH : VerifyClienteOk(p, shape)
    \/ \E p \in P, err \in ER : VerifyClienteFail(p, err)
    \/ \E p \in P, applied \in AC, shape \in SH, echo \in EC :
          PatchOk(p, applied, shape, echo)
    \/ \E p \in P, err \in ER : PatchFail(p, err)
    \/ \E p \in P, shape \in SH : TicketCurrentOk(p, shape)
    \/ \E p \in P, err \in ER : TicketCurrentFail(p, err)
    \/ \E p \in P, applied \in AT, shape \in SH, echo \in EC :
          TicketPutOk(p, applied, shape, echo)
    \/ \E p \in P, err \in ER : TicketPutFail(p, err)
    \/ \E p \in P, shape \in SH : TicketVerifyOk(p, shape)
    \/ \E p \in P, err \in ER : TicketVerifyFail(p, err)

\* The operations of one call, and the ends of their awaits.
Single(P, IDS, SH, ER) ==
    \/ \E p \in P, op \in SingleCallOps, id \in IDS : SingleInvoke(p, op, id)
    \/ \E p \in P, shape \in SH : SingleOk(p, shape)
    \/ \E p \in P, err \in ER : SingleFail(p, err)

\* One invocation, with every input and every answer.
SvcNext ==
    \/ Invoke({1}, ServicioIds, ActualizarClienteInputs, EstadoInputs, TicketInputs)
    \/ InvokeWriteOnly({1}, EstadoInputs)
    \/ Single({1}, ServicioIds, Shapes, CallErrors)
    \/ Resume({1}, Shapes, SUBSET ClienteFields, SUBSET TicketFields \cup {AllTicketFields},
              BOOLEAN, CallErrors)

\* Bound of the concurrent model: the access-layer calls that the network
\* answers (with a body or an error) in one behaviour.
MaxAnswers == 3

\* The calls of the invocations in P that the network has answered so far.
RECURSIVE Answered(_)
Answered(P) ==
    IF P = {} THEN 0
    ELSE LET p == CHOOSE q \in P : TRUE
         IN Cardinality({i \in 1..Len(proc[p].log) :
                            proc[p].log[i].via = "network"
                            /\ proc[p].log[i].outcome # "pending"})
            + Answered(P \ {p})

\* Concurrent invocations, on the same service instances, of the read and of the
\* methods that verify their write, with one valid input per tool, answers that
\* carry a record or none, and writes that are persisted whole or not at all.
ConcNext ==
    \/ Invoke(Procs, {1},
              {[id_servicio |-> 1, comentarios |-> <<"x">>, email |-> Undef]},
              {[id_servicio |-> 1, motivo |-> <<"m">>]},
              {[NoUpdates EXCEPT !.estado = Str("resuelto")]})
    \/ /\ Answered(Procs) < MaxAnswers
       /\ Resume(Procs, {"object", "empty_array"},
                 {{}, ClienteFields}, {{}, AllTicketFields}, {FALSE}, {"Network error"})

(***************************************************************************)
(* Specifications                                                          *)
(***************************************************************************)

HttpInit == HttpIdle /\ CacheIdle /\ ClientIdle /\ SvcIdle

SpecHttp == HttpInit /\ [][HttpNext]_vars

CacheInit == CacheIdle /\ HttpIdle /\ ClientIdle /\ SvcIdle

SpecCache == CacheInit /\ [][CacheNext]_vars

ClientInit == ClientIdle /\ CacheIdle /\ HttpIdle /\ SvcIdle

SpecClient == ClientInit /\ [][ClientNext]_vars

\* The callers of one WispHubClient racing within the lifetime of the entries:
\* gets of either endpoint with and without a cacheTtl, whose network calls
\* resolve in any order with one of two bodies or reject, and clearCache.
RaceNext ==
    \/ \E c \in Callers, e \in Endpoints, p \in ParamStrings, ttl \in {0, 1} :
          GetStart(c, e, p, ttl)
    \/ \E c \in Callers, body \in {ObjA, ObjB} : GetResolve(c, body)
    \/ \E c \in Callers : GetReject(c)
    \/ ClearCache

SpecRace == ClientInit /\ [][RaceNext]_vars

SvcInit ==
    /\ proc = [p \in Procs |-> NoInvocation]
    /\ up \in UpStates
    /\ HttpIdle /\ CacheIdle /\ ClientIdle

SpecSvc == SvcInit /\ [][SvcNext]_vars

\* The status strings of the upstream's clients: the five of the map, their
\* variants in another case, other words, the empty string.
RecognizedEstados ==
    {Str("Activo"), Str("Suspendido"), Str("Cancelado"), Str("Cortado"), Str("Inactivo")}
EstadoStrings ==
    RecognizedEstados
    \cup {Str("activo"), Str("ACTIVO"), Str("cortado"), Str("Moroso"), Str("Pendiente"),
          EmptyStr, Str("constructor"), Str("toString")}

\* The operations of one call, over a client with any of the status strings.
\* The invoices of the upstream: days overdue given (not yet due, within and
\* past the 30 days), or not given (absent or 0) with a due date past, ahead,
\* absent, or in a format that new Date does not parse.
DiasInputs == {Num(-5), Num(10), Num(30), Num(31), Num(40)}
FechaInputs == {NoDate, InvalidDate, DateAgo(-4), DateAgo(19), DateAgo(61), DateAgo(80)}
Facturas ==
    {ApiFactura(d, NoDate) : d \in DiasInputs}
    \cup {ApiFactura(d, f) : d \in {NoNum, Num(0)}, f \in FechaInputs}

\* The balances of the upstream: no, one or two pending invoices.
MaxFacturas == 2
FacturaLists == UNION {[1..n -> Facturas] : n \in 0..MaxFacturas}
ApiSaldos ==
    {ApiSaldoOf(List(l), NoList) : l \in FacturaLists}
    \cup {ApiSaldoOf(NoList, List(l)) : l \in [1..1 -> Facturas]}
    \cup {ApiSaldoOf(NoList, NoList)}

\* The codes of the upstream's tickets: the four of the maps, others, none.
RecognizedCodes == {Str("1"), Str("2"), Str("3"), Str("4")}
TicketCodes == RecognizedCodes \cup {Str("0"), Str("5"), Undef}

NormInit ==
    /\ proc = [p \in Procs |-> NoInvocation]
    /\ up \in {[UpIdle EXCEPT !.cliente.estado = s] : s \in EstadoStrings}
           \cup {[UpIdle EXCEPT !.ticket = ApiTicket(e, pri)] :
                    e \in TicketCodes, pri \in TicketCodes}
           \cup {[UpIdle EXCEPT !.saldo = b] : b \in ApiSaldos}
    /\ HttpIdle /\ CacheIdle /\ ClientIdle

NormNext == Single({1}, {1}, Shapes, CallErrors)

SpecNorm == NormInit /\ [][NormNext]_vars

\* One access-layer call and one obtenerCliente, side by side, each brought to
\* its end: the transport answers every transmission (or axios times it out),
\* the timers of the delays fire, and a pending get of the service resolves or
\* rejects.
BoundScripts == [1..ScriptLen -> {R200, R404, R500, RNet}]

BoundInit == HttpIdle /\ CacheIdle /\ ClientIdle /\ SvcIdle

GetClienteEnds(p) ==
    \/ \E shape \in {"object", "empty_array"} : GetClienteOk(p, shape)
    \/ \E err \in {"Network error"} : GetClienteFail(p, err)

BoundNext ==
    \/ \E s \in BoundScripts : Request("GET", s)
    \/ ReceiveOk
    \/ ReceiveError
    \/ DelayElapsed
    \/ \E id \in ServicioIds : ObtenerCliente(1, id)
    \/ GetClienteEnds(1)
    \/ BackoffElapsed(1)

BoundFair ==
    /\ WF_vars(ReceiveOk)
    /\ WF_vars(ReceiveError)
    /\ WF_vars(DelayElapsed)
    /\ WF_vars(GetClienteEnds(1))
    /\ WF_vars(BackoffElapsed(1))

SpecBound == BoundInit /\ [][BoundNext]_vars /\ BoundFair

ConcInit == SvcIdle /\ HttpIdle /\ CacheIdle /\ ClientIdle

SpecConc == ConcInit /\ [][ConcNext]_vars

HttpDone == hpc \in {"resolved", "rejected"}

\* Responses the interceptor has seen so far.
Received == IF hpc = "sent" THEN sent - 1 ELSE sent

Retriable(r) == ~HasResponse(r) \/ Is5xx(r)

(***************************************************************************)
(* Claims on the retry policy (SpecHttp)                                   *)
(***************************************************************************)

\* C1: with retryAttempts = 3, a request answered 5xx, 5xx, 200 ends resolved
\* with the 200 body after exactly two backoff delays, the second at least as
\* long as the first.
C1_SucceedsOnThirdTransmission ==
    (/\ HttpDone
     /\ Is5xx(script[1]) /\ Is5xx(script[2]) /\ script[3] = R200)
    => /\ hpc = "resolved"
       /\ hres = Resolved(R200.data)
       /\ Len(delays) = 2
       /\ delays[2] >= delays[1]

\* C2: with retryAttempts = 3 and a transport that always answers 503, the
\* request is transmitted exactly 4 times and then rejected with an API error
\* carrying the 5xx status.
C2_FourTransmissionsThenApiError ==
    (HttpDone /\ \A i \in 1..ScriptLen : script[i] = R503)
    => /\ sent = 1 + retryAttempts
       /\ hpc = "rejected"
       /\ hres.kind = "WispHub API Error"
       /\ hres.status >= 500

\* C3: a request answered with a 4xx status is never retried: nothing is
\* transmitted after that answer, no backoff delay follows it (none at all when
\* it answers the first transmission), and the call is rejected with the
\* formatted error of that answer.
C3_ClientErrorNeverRetried ==
    \A i \in 1..Received :
        Is4xx(ScriptAt(script, i))
        => /\ sent = i
           /\ Len(delays) = i - 1
           /\ hpc = "rejected"
           /\ hres = formatError(ScriptAt(script, i))

\* C3 witness: a first transmission was answered 404 and the call has ended.
C3_Witness ==
    /\ hpc = "rejected"
    /\ script[1] = R404
    /\ sent = 1
    /\ delays = <<>>
    /\ hres = [kind |-> "WispHub API Error", status |-> 404, data |-> Null]

\* C4 (as claimed): a POST that fails with a 5xx or with no response is
\* transmitted at most once.
C4_PostTransmittedAtMostOnce ==
    (hreq.method = "POST" /\ hpc # "idle" /\ Retriable(script[1])) => sent <= 1

\* C4 (amended): the retry policy does not look at the method. Whatever the
\* method, POST included, a request whose first transmission fails with a 5xx
\* or with no response is re-sent after the backoff delay, and no request is
\* transmitted more than 1 + retryAttempts times.
C4_RetryIgnoresMethod ==
    /\ sent <= 1 + retryAttempts
    /\ (HttpDone /\ Retriable(script[1])) => sent >= 2

\* C4 witness: a POST answered 500 has been transmitted a second time.
C4_Witness ==
    /\ HttpDone
    /\ hreq.method = "POST"
    /\ script[1] = R500
    /\ sent = 2
    /\ Len(delays) = 1

(***************************************************************************)
(* Claims on the cache (SpecCache)                                         *)
(***************************************************************************)

\* C6 (as claimed): after set(key, v, ttl) at time t with no later
\* set/delete/clear of the key, get(key) returns v at every time before t + ttl,
\* and at every time at or after t + ttl returns absent and leaves the key out of
\* the Map.
C6_AbsentFromExpiryTime ==
    (got.valid /\ written[got.key].live)
    => LET w == written[got.key] IN
       /\ now < w.at + w.ttl => got.value = w.value
       /\ now >= w.at + w.ttl => (got.value = Null /\ ~cm.map[got.key].present)

\* C6 (amended): after set(key, v, ttl) at time t with no later set/delete/clear
\* of the key, get(key) returns v at every time up to and including t + ttl, and
\* at every time after t + ttl returns absent and leaves the key out of the Map.
C6_AbsentAfterExpiryTime ==
    (got.valid /\ written[got.key].live)
    => LET w == written[got.key] IN
       /\ now <= w.at + w.ttl => got.value = w.value
       /\ now > w.at + w.ttl => (got.value = Null /\ ~cm.map[got.key].present)

\* C6 witness: a get after the expiry time of a set value returned absent and
\* removed the entry.
C6_Witness ==
    /\ got.valid
    /\ written[got.key].live
    /\ written[got.key].value = ObjA
    /\ now > written[got.key].at + written[got.key].ttl
    /\ got.value = Null
    /\ ~cm.map[got.key].present
    /\ cm.stats.deletes = 1

(***************************************************************************)
(* Claims on the cache-aside read (SpecClient)                             *)
(***************************************************************************)

\* C5: a get with a cacheTtl > 0 made while an earlier successful get of the
\* same path and params is within its TTL (and the cache was not cleared) returns
\* that get's body without a network call, whatever the body.
C5_SecondGetServedFromCache ==
    \A c \in Callers :
        calls[c].expectHit
        => /\ calls[c].pc = "done"
           /\ ~calls[c].net
           /\ calls[c].result = calls[c].expectBody

(***************************************************************************)
(* Claims on the write-verification flows (SpecSvc, SpecConc)              *)
(***************************************************************************)

\* The invocation has made a call of the given phase that ended with outcome.
Called(pr, phase, outcome) ==
    \E i \in 1..Len(pr.log) : pr.log[i].phase = phase /\ pr.log[i].outcome = outcome

\* C7: when actualizarCliente sends comentarios = x, the write is acknowledged
\* and the re-read returns a record whose comentarios is still the value held
\* before the write (which is not x), then the result has success = true, its
\* data is the transformed re-read record, with the old comentarios and not x,
\* and the per-field report marks comentarios as not matching.
C7_IgnoredFieldReportedAsMismatch ==
    LET pr == proc[1]
        reread == firstRecord(pr.reread)
    IN (/\ pr.op = "actualizarCliente" /\ pr.pc = "done"
        /\ "comentarios" \in Sent(pr.apiData)
        /\ Called(pr, "write", "ok")
        /\ Called(pr, "verify", "ok")
        /\ reread # NullRec
        /\ Get(reread, "comentarios") = pr.before.comentarios
        /\ pr.apiData.comentarios # pr.before.comentarios)
       => /\ pr.result.success
          /\ pr.result.data = clienteToUserFriendly(reread)
          /\ pr.result.data.comentarios = pr.before.comentarios
          /\ pr.result.data.comentarios # pr.apiData.comentarios
          /\ verifiedFields(pr.result.debugInfo)["comentarios"] = "NO COINCIDE"

\* C7 witness: " x " was given, "x" was sent and acknowledged, the upstream kept
\* "old", and the result carries "old" and a mismatch.
C7_Witness ==
    LET pr == proc[1] IN
    /\ pr.op = "actualizarCliente" /\ pr.pc = "done"
    /\ pr.params.comentarios = <<" ", "x", " ">>
    /\ pr.apiData.comentarios = <<"x">>
    /\ Called(pr, "write", "ok")
    /\ Called(pr, "verify", "ok")
    /\ pr.before.comentarios = Str("old")
    /\ up.cliente.comentarios = Str("old")
    /\ pr.result.success
    /\ pr.result.debugInfo.verified # NullRec
    /\ pr.result.data.comentarios = Str("old")
    /\ verifiedFields(pr.result.debugInfo)["comentarios"] = "NO COINCIDE"

\* The verification read of the invocation failed or returned no record.
VerificationUnavailable(pr) ==
    \/ Called(pr, "verify", "error")
    \/ Called(pr, "verify", "ok") /\ firstRecord(pr.reread) = NullRec

\* C8: in actualizarCliente and actualizarTicket, when the write was
\* acknowledged and the verification read fails or returns no record, the result
\* has success = true, its data is the transformed write response, and it shows
\* that verification did not work: no verified record in debugInfo (both tools
\* print "Verificacion funciono: No"), and verificationFailed for a client.
C8_FallbackToWriteResponse ==
    LET pr == proc[1] IN
    (/\ pr.op \in {"actualizarCliente", "actualizarTicket"}
     /\ pr.pc = "done"
     /\ Called(pr, "write", "ok")
     /\ VerificationUnavailable(pr))
    => /\ pr.result.success
       /\ pr.result.debugInfo.present
       /\ ~verificacionFunciono(pr.result.debugInfo)
       /\ pr.op = "actualizarCliente"
          => /\ pr.result.data = clienteToUserFriendly(asRecord(pr.response))
             /\ pr.result.debugInfo.verificationFailed
       /\ pr.op = "actualizarTicket"
          => pr.result.data = ticketToUserFriendly(firstRecord(pr.response))

\* C8 witness: a client update whose verification GET failed returned the
\* transformed PUT response, here with the comentarios sent.
C8_Witness ==
    LET pr == proc[1] IN
    /\ pr.op = "actualizarCliente" /\ pr.pc = "done"
    /\ Called(pr, "write", "ok")
    /\ Called(pr, "verify", "error")
    /\ pr.response.shape = "object"
    /\ pr.result.success
    /\ pr.result.data.comentarios = <<"x">>
    /\ pr.result.debugInfo.verificationFailed

\* C8 witness of the ticket case is part of the same run: a ticket update whose
\* verification GET returned an empty array.
C8_TicketCase ==
    LET pr == proc[1] IN
    /\ pr.op = "actualizarTicket" /\ pr.pc = "done"
    /\ Called(pr, "write", "ok")
    /\ Called(pr, "verify", "ok")
    /\ pr.reread.shape = "empty_array"
    /\ pr.result.success

\* The methods that write to the upstream.
MutatingOps == {"actualizarCliente", "actualizarTicket", "activarServicio",
                "desactivarServicio", "cancelarServicio"}

\* C9: every mutating method verifies its write: when it has returned its
\* success result after an acknowledged write, it has made, after that write, a
\* GET of the same entity to the upstream.
C9_EveryWriteVerified ==
    LET pr == proc[1] IN
    (pr.op \in MutatingOps /\ pr.pc = "done" /\ pr.result.success)
    => \A i \in 1..Len(pr.log) :
          (pr.log[i].phase = "write" /\ pr.log[i].outcome = "ok")
          => \E j \in (i + 1)..Len(pr.log) :
                /\ pr.log[j].method = "GET"
                /\ pr.log[j].entity = pr.log[i].entity
                /\ pr.log[j].via = "network"

\* C10: in every invocation, under any interleaving with the others, a
\* verification read is made only after the write of the invocation was
\* acknowledged, and it goes to the network, never to the cache.
C10_VerificationReadIsFresh ==
    \A p \in Procs :
        \A i \in 1..Len(proc[p].log) :
            proc[p].log[i].phase = "verify"
            => /\ proc[p].log[i].via = "network"
               /\ \E j \in 1..(i - 1) :
                     /\ proc[p].log[j].phase = "write"
                     /\ proc[p].log[j].outcome = "ok"

\* C10 witness: while the PATCH of a desactivarServicio was in flight, another
\* invocation's obtenerCliente stored the client in the cache; the cache was
\* cleared on the acknowledgement and the verification read is on the network.
C10_Witness ==
    \E p, q \in Procs :
        /\ proc[p].op = "desactivarServicio"
        /\ proc[p].pc = "get"
        /\ proc[p].log[Len(proc[p].log)] = Call("GET", "cliente", "verify", "network", "pending")
        /\ proc[q].op = "obtenerCliente"
        /\ proc[q].pc = "done"
        /\ proc[q].result.success
        /\ cm.stats.sets = 1
        /\ cm.stats.clears = 1
        /\ ~cm.map[ClienteKey].present

(***************************************************************************)
(* Claims on the failures of the operations (SpecSvc)                      *)
(***************************************************************************)

\* The calls of the given phase in the log of the invocation.
CallsOf(pr, phase) == {i \in 1..Len(pr.log) : pr.log[i].phase = phase}

VerifyingOps == {"actualizarCliente", "actualizarTicket", "desactivarServicio"}

\* C12: in actualizarCliente, actualizarTicket and desactivarServicio, once the
\* write was acknowledged, whatever the body of the acknowledgement and whatever
\* the re-read returns, the result of the operation has success = true.
C12_AcknowledgedWriteSucceeds ==
    LET pr == proc[1] IN
    (pr.op \in VerifyingOps /\ pr.pc = "done" /\ Called(pr, "write", "ok"))
    => pr.result.success

\* C13: actualizarCliente with a valid service id and none of the fields it can
\* update fails at once with the error that at least one field is required, and
\* makes no access-layer call.
C13_NoFieldsFailsBeforeAnyCall ==
    LET pr == proc[1] IN
    (/\ pr.op = "actualizarCliente"
     /\ isValidServicioId(pr.id)
     /\ \A f \in {"comentarios", "email"} : pr.params[f] = Undef)
    => /\ pr.pc = "done"
       /\ ~pr.result.success
       /\ pr.result.error = "Debe proporcionar al menos un campo para actualizar"
       /\ pr.log = <<>>

\* C13 witness: actualizarCliente({id_servicio: 1}) has failed without a call.
C13_Witness ==
    LET pr == proc[1] IN
    /\ pr.op = "actualizarCliente" /\ pr.pc = "done"
    /\ pr.params = [id_servicio |-> 1, comentarios |-> Undef, email |-> Undef]
    /\ ~pr.result.success
    /\ pr.result.timestamp # Undef
    /\ pr.log = <<>>

\* Nothing of the update set would be sent to the upstream: no state, no
\* priority, no notes, and no technician that is an id or an e-mail address.
NothingToSend(updates) ==
    Sent(ticketApiData(updates)) = {} /\ ~TruthyStr(updates.notas)

\* C14: a ticket update from which no field is sent to the upstream (an empty
\* update set, or only a technician that is neither numeric nor an e-mail
\* address) fails at once, without the GET of the current ticket and without
\* the PUT.
C14_NothingToSendFailsBeforeAnyCall ==
    LET pr == proc[1] IN
    (pr.op = "actualizarTicket" /\ NothingToSend(pr.params))
    => /\ pr.pc = "refused" \/ (pr.pc = "done" /\ ~pr.result.success)
       /\ pr.log = <<>>

\* C15: in every ticket update that asks for the state resuelto or cerrado, the
\* payload of the PUT holds a non-empty end date fecha_fin and a non-empty
\* reason code razon_falla, neither of which the caller can supply, and the PUT
\* comes after an answered GET of the current ticket.
C15_ClosingUpdateCarriesDateAndReason ==
    LET pr == proc[1] IN
    (pr.op = "actualizarTicket" /\ pr.params.estado \in {Str("resuelto"), Str("cerrado")})
    => /\ {"fecha_fin", "razon_falla"} \cap DOMAIN pr.params = {}
       /\ \A i \in 1..Len(pr.log) :
             pr.log[i].method = "PUT"
             => /\ TruthyStr(pr.apiData.fecha_fin)
                /\ TruthyStr(pr.apiData.razon_falla)
                /\ pr.apiData.estado = estadoTicketToNumber(pr.params.estado)
                /\ \E j \in 1..(i - 1) :
                      /\ pr.log[j].method = "GET"
                      /\ pr.log[j].entity = "ticket"
                      /\ pr.log[j].outcome = "ok"

\* C15 witness: the PUT of an update to resuelto is in flight; the ticket read
\* had no end date, the payload has one, and the reason code Otro.
C15_Witness ==
    LET pr == proc[1] IN
    /\ pr.op = "actualizarTicket" /\ pr.pc = "put"
    /\ pr.params.estado = Str("resuelto")
    /\ pr.before.fecha_fin = Undef
    /\ pr.apiData.fecha_fin = wisphubDateFormat(now)
    /\ pr.apiData.razon_falla = Str("Otro")
    /\ pr.apiData.estado = Str("3")

(***************************************************************************)
(* Claims on the bounded-retry read (SpecSvc)                              *)
(***************************************************************************)

\* C16: when obtenerCliente has made its three attempts and each was answered
\* without error and without a record, it returns success = true without data
\* and with an attempt trace of exactly three entries, one per attempt.
C16_NoMatchGivesThreeEntryTrace ==
    LET pr == proc[1] IN
    (/\ pr.op = "obtenerCliente" /\ pr.pc = "done"
     /\ Len(pr.log) = maxRetries
     /\ \A i \in 1..Len(pr.log) : pr.log[i].outcome = "ok")
    => /\ pr.result.success
       /\ pr.result.data = NullRec
       /\ Len(pr.result.debugInfo.attempts) = maxRetries
       /\ \A k \in 1..maxRetries : pr.result.debugInfo.attempts[k].attempt = k

\* C17: obtenerCliente returns success = false only when every one of its
\* attempts ended in a transport or API failure: once an attempt of a call with
\* a valid id was answered without error, with a record or without one, the
\* result has success = true.
C17_FailureOnlyWhenEveryAttemptFailed ==
    LET pr == proc[1] IN
    (/\ pr.op = "obtenerCliente" /\ pr.pc = "done"
     /\ isValidServicioId(pr.id)
     /\ \E i \in 1..Len(pr.log) : pr.log[i].outcome = "ok")
    => pr.result.success

\* The operations that take a service id.
OpsWithServicioId ==
    {"obtenerCliente", "activarServicio", "desactivarServicio", "cancelarServicio",
     "actualizarCliente", "crearTicket", "obtenerTicketsCliente", "consultarSaldo"}

\* C18: an operation that takes a service id and is given one that is no
\* positive integer fails at once: it makes no access-layer call, no second
\* attempt and no backoff wait.
C18_InvalidIdFailsAtOnce ==
    LET pr == proc[1] IN
    (pr.op \in OpsWithServicioId /\ ~isValidServicioId(pr.id))
    => /\ pr.pc = "done"
       /\ ~pr.result.success
       /\ pr.log = <<>>
       /\ pr.attempt <= 1

\* C19: no operation raises to its caller. Whatever the upstream does (no
\* response, an error status, an empty or malformed body), the invocation ends
\* with a result, never with an error thrown; every result carries a timestamp,
\* and a failure result has success = false, an error message and no data.
C19_FailuresAreResults ==
    LET pr == proc[1] IN
    /\ pr.pc # "raised"
    /\ pr.pc = "done"
       => /\ pr.result.timestamp = toISOString(now)
          /\ pr.result.success => pr.result.error = ""
          /\ ~pr.result.success => pr.result.error # "" /\ pr.result.data = NullRec
    /\ (pr.thrown # "" /\ pr.pc = "done" /\ pr.op \in SingleCallOps)
       => ~pr.result.success /\ pr.result.error = pr.thrown

\* C19 witness: consultarClientes was answered 200 with the body null; reading
\* its results threw inside the try, and the result is a failure with the
\* message of that error and a timestamp.
C19_Witness ==
    LET pr == proc[1] IN
    /\ pr.op = "consultarClientes" /\ pr.pc = "done"
    /\ pr.log[1].outcome = "ok"
    /\ pr.reread = Null
    /\ ~pr.result.success
    /\ pr.result.error = "Cannot read properties of null"
    /\ pr.result.timestamp = toISOString(now)

(***************************************************************************)
(* Claims on the normalization of a client (SpecNorm)                      *)
(***************************************************************************)

\* C20: whatever status string the upstream holds for a client, the estado of
\* the normalized client is one of activo, suspendido, cancelado, and it is
\* cancelado for every string other than Activo, Suspendido, Cancelado,
\* Cortado, Inactivo; the normalization does not throw.
C20_UnrecognizedStatusIsCancelado ==
    LET pr == proc[1] IN
    /\ pr.pc # "raised"
    /\ (pr.op = "consultarClientes" /\ pr.pc = "done" /\ pr.reread.shape \in {"array", "page"})
       => /\ pr.result.success
          /\ Len(pr.result.data.items) = 1
          /\ pr.result.data.items[1].estado \in {Str("activo"), Str("suspendido"), Str("cancelado")}
          /\ up.cliente.estado \notin RecognizedEstados
             => pr.result.data.items[1].estado = Str("cancelado")

(***************************************************************************)
(* Claims on the conversions of DataTransformer (SpecSvc)                  *)
(***************************************************************************)

\* C21: the conversions round-trip on the canonical values. For every client
\* status v, estadoClienteStringToEnum(estadoClienteEnumToString(v)) = v; for
\* every ticket status v, estadoTicketToString(estadoTicketToNumber(v)) = v; for
\* every ticket priority v, prioridadTicketToString(prioridadTicketToNumber(v))
\* = v; each reverse map has every canonical value as a key. So the state and
\* the priority that an update of a ticket puts into its PUT read back as the
\* state and the priority asked for.
C21_EnumRoundTrips ==
    LET pr == proc[1] IN
    /\ \A v \in EstadoCliente :
          /\ v \in DOMAIN ESTADO_CLIENTE_REVERSE_MAP
          /\ estadoClienteStringToEnum(estadoClienteEnumToString(v)) = v
    /\ \A v \in EstadoTicket :
          /\ v \in DOMAIN ESTADO_TICKET_REVERSE_MAP
          /\ estadoTicketToString(estadoTicketToNumber(v)) = v
    /\ \A v \in PrioridadTicket :
          /\ v \in DOMAIN PRIORIDAD_TICKET_REVERSE_MAP
          /\ prioridadTicketToString(prioridadTicketToNumber(v)) = v
    /\ (pr.op = "actualizarTicket" /\ pr.pc \in {"current", "put", "verify", "done"})
       => /\ pr.params.estado \in EstadoTicket
             => estadoTicketToString(pr.apiData.estado) = pr.params.estado
          /\ pr.params.prioridad \in PrioridadTicket
             => prioridadTicketToString(pr.apiData.prioridad) = pr.params.prioridad

\* C21 witness: an update of a ticket to resuelto with priority alta was
\* persisted by the upstream and read back: the ticket returned has the state
\* and the priority asked for.
C21_Witness ==
    LET pr == proc[1] IN
    /\ pr.op = "actualizarTicket" /\ pr.pc = "done" /\ pr.result.success
    /\ pr.params.estado = Str("resuelto") /\ pr.params.prioridad = Str("alta")
    /\ up.ticket.estado = Str("3") /\ up.ticket.prioridad = Str("3")
    /\ pr.result.debugInfo.verified = up.ticket
    /\ pr.result.data.estado = Str("resuelto")
    /\ pr.result.data.prioridad = Str("alta")

\* C22: whatever the codes of the state and the priority of an upstream ticket,
\* the normalized ticket has its estado among nuevo, en_progreso, resuelto,
\* cerrado and its prioridad among baja, normal, alta, muy_alta, and a priority
\* code that is none of 1..4 gives normal.
C22_TicketAlwaysCanonical ==
    LET pr == proc[1] IN
    (pr.op = "obtenerTicketsCliente" /\ pr.pc = "done" /\ pr.reread.shape = "array")
    => /\ pr.result.success
       /\ Len(pr.result.data.items) = 1
       /\ pr.result.data.items[1].estado \in EstadoTicket
       /\ pr.result.data.items[1].prioridad \in PrioridadTicket
       /\ up.ticket.prioridad \notin RecognizedCodes
          => pr.result.data.items[1].prioridad = Str("normal")

\* C23: the list operations unwrap every shape alike. For consultarClientes and
\* obtenerTicketsCliente, an answer that is a page {count, next, previous,
\* results}, a bare array or a bare object gives the list of the normalized
\* records it holds, in their order: a bare object gives the list of one.
C23_ListsUnwrapEveryShape ==
    LET pr == proc[1] IN
    (pr.op \in {"consultarClientes", "obtenerTicketsCliente"} /\ pr.pc = "done"
     /\ pr.reread.shape \in RecShapes)
    => /\ pr.result.success
       /\ pr.result.data.items =
            <<IF pr.op = "consultarClientes" THEN clienteToUserFriendly(pr.reread.rec)
              ELSE ticketToUserFriendly(pr.reread.rec)>>

\* The severity of a tier of an invoice or of an account.
Severity(tier) ==
    CASE tier \in {Str("vigente"), Str("al_corriente")} -> 0
      [] tier \in {Str("vencida"), Str("con_atraso")} -> 1
      [] tier \in {Str("muy_vencida"), Str("muy_atrasado")} -> 2

\* C24: the tiers of a balance. Each pending invoice is vigente when its days
\* overdue are at most 0, vencida when at most 30, muy_vencida otherwise, and
\* the tier of the account is as severe as the most severe of its invoices
\* (al_corriente without invoices).
C24_AccountTierIsWorstInvoiceTier ==
    LET pr == proc[1]
        facturas == pr.result.data.facturas
    IN
    (pr.op = "consultarSaldo" /\ pr.pc = "done" /\ pr.result.success)
    => /\ \A i \in 1..Len(facturas) :
             facturas[i].estado_vencimiento =
                 IF Leq(facturas[i].dias_vencido, 0) THEN Str("vigente")
                 ELSE IF Leq(facturas[i].dias_vencido, 30) THEN Str("vencida")
                      ELSE Str("muy_vencida")
       /\ Len(facturas) = 0 => pr.result.data.estado_cuenta = Str("al_corriente")
       /\ \A i \in 1..Len(facturas) :
             Severity(facturas[i].estado_vencimiento) <= Severity(pr.result.data.estado_cuenta)
       /\ Len(facturas) > 0
          => \E i \in 1..Len(facturas) :
                Severity(facturas[i].estado_vencimiento) = Severity(pr.result.data.estado_cuenta)

(***************************************************************************)
(* Further claims on the access layer (SpecHttp)                           *)
(***************************************************************************)

\* C25: the error a rejected call carries tells what happened to its last
\* transmission: a response received (its status is not 2xx), whatever its
\* body, gives an API error with the status of that response; no response
\* gives a timeout error when the request timed out and a network error
\* otherwise.
C25_ErrorKindFollowsOutcome ==
    LET r == ScriptAt(script, sent) IN
    hpc = "rejected"
    => IF HasResponse(r)
       THEN hres.kind = "WispHub API Error" /\ hres.status = r.status
       ELSE IF r.code = "ECONNABORTED"
            THEN hres.kind = "Request timeout"
            ELSE hres.kind = "Network error"

Attempts(pr) == {i \in 1..Len(pr.log) : pr.log[i].method = "GET"}

\* C27: retries are bounded and end. Whatever the transport answers, a call of
\* the access layer transmits its request at most 1 + retryAttempts times and
\* then resolves or rejects; obtenerCliente makes at most 3 attempts and always
\* returns.
C27_RetriesBoundedAndEnd ==
    /\ [](sent <= 1 + retryAttempts)
    /\ [](proc[1].attempt <= 3 /\ Cardinality(Attempts(proc[1])) <= 3)
    /\ (hpc \in {"sent", "delay"}) ~> HttpDone
    /\ (proc[1].op = "obtenerCliente") ~> (proc[1].pc = "done")

\* C27 witness: a call of the access layer ended after a retransmission, and
\* obtenerCliente returned after its third attempt.
C27_Witness ==
    /\ HttpDone /\ sent = 2
    /\ proc[1].pc = "done" /\ proc[1].attempt = 3
    /\ Cardinality(Attempts(proc[1])) = 3

(***************************************************************************)
(* Further claims on the write-verification flows (SpecSvc)                *)
(***************************************************************************)

\* C28: the verification is attempted once. actualizarCliente, actualizarTicket
\* and desactivarServicio each make at most one verification read, after their
\* write was acknowledged, and a verification read that failed or found
\* nothing is not followed by another one.
C28_VerificationAttemptedOnce ==
    LET pr == proc[1] IN
    pr.op \in VerifyingOps
    => /\ Cardinality(CallsOf(pr, "verify")) <= 1
       /\ CallsOf(pr, "verify") # {} => Called(pr, "write", "ok")

\* What the caller of actualizarTicket asked to change, as properties of the
\* ticket: the state, the priority, the technician, and through the notes the
\* description.
Asked(updates) ==
    {f \in {"estado", "prioridad"} : TruthyStr(updates[f])}
    \cup (IF TruthyStr(updates.tecnico) THEN {"tecnico", "email_tecnico"} ELSE {})
    \cup (IF TruthyStr(updates.notas) THEN {"descripcion"} ELSE {})

\* The bookkeeping of a change of state: reason, start, end, closing user.
Bookkeeping(updates) ==
    IF TruthyStr(updates.estado)
    THEN {"razon_falla", "fecha_inicio", "fecha_fin", "finalizado_por"} ELSE {}

\* C29: the PUT of actualizarTicket leaves alone what the caller did not ask to
\* change. Every property of its payload that is neither asked for, nor
\* bookkeeping of a change of state, nor denylisted has the value fetched from
\* the upstream, and no denylisted property (tickets_mensual, tickets_anual,
\* vencimiento, archivo_ticket, respuestas) is in the payload.
C29_UnaskedFieldsKeepFetchedValue ==
    LET pr == proc[1] IN
    (pr.op = "actualizarTicket" /\ pr.pc = "put")
    => /\ \A f \in Denylist : pr.apiData[f] = Undef
       /\ \A f \in DOMAIN pr.apiData \ (Asked(pr.params) \cup Bookkeeping(pr.params)
                                          \cup Denylist) :
             pr.apiData[f] = pr.before[f]

\* s starts with prefix.
StartsWith(s, prefix) == Len(prefix) <= Len(s) /\ SubSeq(s, 1, Len(prefix)) = prefix

\* C30: the notes of a ticket update go into the description. With notes, the
\* description in the PUT payload is the fetched description, then the
\* timestamped marker, then the notes trimmed, so the fetched description is a
\* prefix of it, and the payload has no property for the notes; without notes
\* the description is the fetched one.
C30_NotesAppendedToDescription ==
    LET pr == proc[1] IN
    (pr.op = "actualizarTicket" /\ pr.pc = "put")
    => /\ "notas" \notin DOMAIN pr.apiData
       /\ IF TruthyStr(pr.params.notas)
          THEN /\ StartsWith(pr.apiData.descripcion, pr.before.descripcion)
               /\ pr.apiData.descripcion =
                     pr.before.descripcion \o NotesMarker
                     \o TrimEnd(TrimStart(pr.params.notas))
          ELSE pr.apiData.descripcion = pr.before.descripcion

\* C30 witness: an update with the notes "n " is about to PUT the description
\* "d" followed by the marker and "n".
C30_Witness ==
    LET pr == proc[1] IN
    /\ pr.op = "actualizarTicket" /\ pr.pc = "put"
    /\ pr.params.notas = <<"n", " ">>
    /\ pr.before.descripcion = Str("d")
    /\ pr.apiData.descripcion = <<"d">> \o NotesMarker \o <<"n">>

(***************************************************************************)
(* Further claims on the bounded-retry read (SpecSvc)                      *)
(***************************************************************************)

\* C31: in obtenerCliente only the first attempt uses the cache. Every attempt
\* after the first is a network call, and no step of an attempt after the
\* first (its start after the backoff, its answer) reads or writes the cache:
\* entries and counters stay as they are.
C31_OnlyFirstAttemptUsesCache ==
    /\ [](proc[1].op = "obtenerCliente"
           => \A i \in 2..Len(proc[1].log) : proc[1].log[i].via = "network")
    /\ [][(proc[1].op = "obtenerCliente" /\ (proc[1].attempt >= 2 \/ proc[1].pc = "backoff"))
           => cm' = cm]_vars

\* C31 witness: the first attempt cached its answer, which held no record, and
\* the second attempt is awaiting the network all the same.
C31_Witness ==
    LET pr == proc[1] IN
    /\ pr.op = "obtenerCliente" /\ pr.pc = "get" /\ pr.attempt = 2
    /\ cm.map[ClienteKey].present /\ cm.stats.sets = 1
    /\ pr.log[2].via = "network"

\* C32: consecutive attempts of obtenerCliente are a backoff apart. Attempt
\* k + 1 starts only after a wait of k x 1000 ms that follows attempt k, whether
\* attempt k failed or found no record, and no wait follows the last attempt:
\* the waits made so far are 1000, 2000, ..., one for each attempt that has ended
\* and was not the last.
C32_BackoffBetweenAttempts ==
    LET pr == proc[1]
        ended == IF pr.pc = "backoff" THEN pr.attempt ELSE pr.attempt - 1
    IN
    (pr.op = "obtenerCliente" /\ pr.attempt >= 1)
    => /\ Len(pr.waits) = ended
       /\ \A k \in 1..Len(pr.waits) : pr.waits[k] = k * 1000
       /\ Len(pr.waits) < maxRetries

(***************************************************************************)
(* Further claims on the normalised balance (SpecNorm)                     *)
(***************************************************************************)

\* C33: the days overdue of a normalised invoice. When the upstream gives the
\* days overdue of an invoice, 0 included, the normalised invoice carries that
\* value; when it gives none and the invoice has a due date, the normalised
\* invoice carries max(0, ceil(days from the due date to now)), which is never
\* negative.
C33_DaysOverdueGivenOrDerived ==
    LET pr == proc[1]
        given == IF up.saldo.facturas_pendientes.set THEN up.saldo.facturas_pendientes.items
                 ELSE up.saldo.facturas.items
        facturas == pr.result.data.facturas
    IN
    (pr.op = "consultarSaldo" /\ pr.pc = "done" /\ pr.result.success)
    => /\ Len(facturas) = Len(given)
       /\ \A i \in 1..Len(given) :
             LET d == given[i].dias_vencido
                 f == given[i].fecha_vencimiento
                 days == CeilDiv(f.ago, DayMs)
             IN /\ d.kind = "num" => facturas[i].dias_vencido = d
                /\ (d.kind # "num" /\ f.kind = "date")
                   => /\ facturas[i].dias_vencido = Num(IF days > 0 THEN days ELSE 0)
                      /\ facturas[i].dias_vencido.n >= 0

(***************************************************************************)
(* Further claims on the client update (SpecSvc)                           *)
(***************************************************************************)

\* What the result of actualizarCliente tells of its PUTs: a success names the
\* endpoint used (debugInfo.endpoint), a failure carries the error of the PUT
\* on the last candidate.
attemptsRecorded(result) ==
    IF result.success
    THEN {[endpoint |-> result.debugInfo.endpoint, outcome |-> "ok"]}
    ELSE IF result.error \in CallErrors
         THEN {[endpoint |-> endpointsToTry[Len(endpointsToTry)], outcome |-> "error"]}
         ELSE {}

\* C34: the candidate endpoints of actualizarCliente. The PUTs go to the
\* candidates in the order /api/clientes/, /api/clients/, /api/usuarios/,
\* /api/contactos/; every PUT before the last one made has failed, so that a
\* candidate is tried only after all earlier ones failed and none is tried
\* after a success; an update that made a PUT fails only if the PUTs on all
\* four candidates failed; and the result records the outcome of every PUT made.
C34_EndpointsTriedInOrder ==
    LET pr == proc[1]
        puts == CallsOf(pr, "write")
    IN
    (pr.op = "actualizarCliente" /\ pr.pc = "done" /\ puts # {})
    => /\ puts = 1..pr.endpoint
       /\ pr.endpoint <= Len(endpointsToTry)
       /\ \A i \in puts : i < pr.endpoint => pr.log[i].outcome = "error"
       /\ ~pr.result.success
          => /\ pr.endpoint = Len(endpointsToTry)
             /\ \A i \in puts : pr.log[i].outcome = "error"
       /\ \A i \in puts :
             [endpoint |-> endpointsToTry[i], outcome |-> pr.log[i].outcome]
                 \in attemptsRecorded(pr.result)

(***************************************************************************)
(* Further claims on the comparison reports (SpecSvc)                      *)
(***************************************************************************)

\* The comparison of formatTicketUpdateResponse: one line, on estado, when the
\* update asked for a state and there is a verified ticket.
estadoVerificado(updates, debugInfo) ==
    IF updates.estado # Undef /\ debugInfo.verified # NullRec
    THEN [f \in {"estado"} |->
             IF fieldMatches(Get(debugInfo.sentToAPI, "estado"), Get(debugInfo.verified, "estado"))
             THEN "COINCIDE" ELSE "NO COINCIDE"]
    ELSE [f \in {} |-> "NO COINCIDE"]

\* C35: the comparison report of an update whose re-read returned a record.
\* The report of a client update and the report of a ticket update have one
\* entry for every field sent to the upstream, which says COINCIDE exactly when
\* the value sent equals the value of the field in the record re-read, and
\* NO COINCIDE otherwise.
C35_ReportComparesEveryFieldSent ==
    LET pr == proc[1]
        debugInfo == pr.result.debugInfo
        report == IF pr.op = "actualizarCliente" THEN verifiedFields(debugInfo)
                  ELSE estadoVerificado(pr.params, debugInfo)
    IN
    (/\ pr.op \in {"actualizarCliente", "actualizarTicket"}
     /\ pr.pc = "done" /\ pr.result.success
     /\ debugInfo.verified # NullRec)
    => /\ DOMAIN report = Sent(debugInfo.sentToAPI)
       /\ \A f \in DOMAIN report :
             report[f] = (IF debugInfo.sentToAPI[f] = Get(debugInfo.verified, f)
                          THEN "COINCIDE" ELSE "NO COINCIDE")

(***************************************************************************)
(* Further claims on the cache (SpecCache)                                 *)
(***************************************************************************)

\* C36: the statistics of the cache over any sequence of set, get, delete,
\* clear and cleanup. Every get adds one to hits + misses and no other
\* operation changes hits or misses, every set adds one to sets and no other
\* operation changes sets, so that hits + misses is the number of gets and sets
\* the number of sets made; the hit rate is hits / (hits + misses), and 0 when
\* there was no get; size is the number of entries held; cleanup returns the
\* number of expired entries, removes them and leaves no expired entry; clear
\* leaves size 0 and changes no counter but clears.
C36_StatisticsCountOperations ==
    /\ [](LET st == getStats(cm)
              gets == st.hits + st.misses
          IN /\ st.size = Cardinality({k \in Keys : cm.map[k] # NoEntry})
             /\ gets = 0 => st.hitRate.num = 0
             /\ gets > 0 => st.hitRate.num * gets = st.hits * st.hitRate.den
             /\ st.hitRate.den > 0
             /\ gets + st.sets <= ops)
    /\ [][LET st == getStats(cm)
              stn == getStats(cm')
              isGet == \E k \in Keys : DoGet(k)
              isSet == \E k \in Keys, v \in CacheValues, ttl \in Ttls : DoSet(k, v, ttl)
          IN /\ stn.hits + stn.misses = st.hits + st.misses + (IF isGet THEN 1 ELSE 0)
             /\ stn.sets = st.sets + (IF isSet THEN 1 ELSE 0)
             /\ DoCleanup
                => /\ cleanedCount(cm, now) = st.size - stn.size
                   /\ cleanedCount(cm, now) =
                         Cardinality({k \in Keys : cm.map[k].present /\ cm.map[k].expires < now})
                   /\ {k \in Keys : cm'.map[k].present /\ cm'.map[k].expires < now} = {}
                   /\ \A k \in Keys : cm'.map[k].present => cm'.map[k] = cm.map[k]
             /\ DoClear
                => /\ stn.size = 0
                   /\ cm'.stats = [cm.stats EXCEPT !.clears = @ + 1]]_vars

\* C36 witness: after a set, a get that hit and a get that missed, the hit rate
\* is 1/2 and one entry is held.
C36_Witness ==
    LET st == getStats(cm) IN
    /\ st.sets = 1 /\ st.hits = 1 /\ st.misses = 1
    /\ st.size = 1
    /\ st.hitRate = [kind |-> "num", num |-> 1, den |-> 2]
    /\ ops = 3

(***************************************************************************)
(* Further claims on the cache-aside read (SpecRace, SpecClient)           *)
(***************************************************************************)

\* C37: the cache under interleaved gets and clearCache of several callers of
\* one WispHubClient. Every entry held is the body that the upstream returned to
\* the last caching get of the key of that entry, with the expiry of that get,
\* and it is a body of the upstream; and the counters count the cache
\* operations: each get with a cacheTtl adds one to hits + misses, each body
\* resolved for a get with a cacheTtl adds one to sets, each clearCache adds one
\* to clears, a delete is counted only by a get that found its entry expired,
\* and no other step changes a counter.
C37_CacheConsistentUnderInterleaving ==
    /\ [](\A k \in Keys :
             cm.map[k].present
             => /\ written[k].live
                /\ cm.map[k].value = written[k].value
                /\ cm.map[k].value \in Bodies
                /\ cm.map[k].expires = written[k].at + written[k].ttl)
    /\ [][LET st == cm.stats
              stn == cm'.stats
              cachedGet == \E c \in Callers, e \in Endpoints, p \in ParamStrings, ttl \in Ttls :
                              GetStart(c, e, p, ttl)
              stored == \E c \in Callers, body \in Bodies :
                           calls[c].ttl > 0 /\ GetResolve(c, body)
          IN /\ stn.hits + stn.misses = st.hits + st.misses + (IF cachedGet THEN 1 ELSE 0)
             /\ stn.sets = st.sets + (IF stored THEN 1 ELSE 0)
             /\ stn.clears = st.clears + (IF ClearCache THEN 1 ELSE 0)
             /\ stn.deletes \in {st.deletes, st.deletes + 1}
             /\ stn.deletes = st.deletes + 1
                => cachedGet /\ stn.misses = st.misses + 1]_vars

\* C37 witness: two callers had a get of the same key in flight together, both
\* bodies were stored, and the entry holds the body of the one that resolved
\* last.
C37_Witness ==
    \E c, d \in Callers :
        /\ c # d
        /\ calls[c].pc = "done" /\ calls[d].pc = "done"
        /\ calls[c].net /\ calls[d].net
        /\ calls[c].key = calls[d].key
        /\ calls[c].ttl > 0 /\ calls[d].ttl > 0
        /\ calls[c].result # calls[d].result
        /\ cm.stats.misses = 2 /\ cm.stats.sets = 2
        /\ cm.map[calls[c].key].present
        /\ cm.map[calls[c].key].value = calls[d].result

(***************************************************************************)
(* Claims on the handler of cambiar_estado_servicio (SpecTool)             *)
(***************************************************************************)

\* C38: the writes of the handler of cambiar_estado_servicio. While its
\* preliminary read runs, and when that read failed, found no client or found
\* the client already in nuevo_estado, the handler has called no write method
\* and no PATCH was issued. When it writes, it has called exactly one method,
\* activarServicio for activo, desactivarServicio for suspendido and
\* cancelarServicio for cancelado, after the preliminary read had completed
\* with a client in another state, and at most one PATCH was issued.
C38_WritesOnlyAfterReadShowsChange ==
    LET pr == proc[1]
        t == pr.tool
        patches == {i \in 1..Len(pr.log) : pr.log[i].method = "PATCH"}
    IN
    t.name = "cambiar_estado_servicio"
    => /\ Len(t.invoked) <= 1
       /\ patches # {} => t.invoked # <<>>
       /\ Cardinality(patches) <= 1
       /\ t.pc = "read" => t.invoked = <<>>
       /\ (t.pc = "returned" /\ t.answer \in {"validacion", "no encontrado", "ya esta"})
          => t.invoked = <<>>
       /\ t.invoked # <<>>
          => /\ t.pc \in {"write", "returned"}
             /\ t.pre.success
             /\ t.pre.timestamp # Undef
             /\ t.pre.data # NullRec
             /\ t.pre.data.estado # t.args.nuevo_estado
             /\ t.preLog # <<>>
             /\ \A j \in 1..Len(t.preLog) :
                   t.preLog[j].method = "GET" /\ t.preLog[j].outcome # "pending"
             /\ t.invoked[1] = (CASE t.args.nuevo_estado = Str("activo") -> "activarServicio"
                                  [] t.args.nuevo_estado = Str("suspendido") -> "desactivarServicio"
                                  [] t.args.nuevo_estado = Str("cancelado") -> "cancelarServicio")
             /\ pr.op = t.invoked[1]

\* C38 witness: the handler read an active client, called cancelarServicio, whose
\* PATCH was acknowledged, and answered.
C38_Witness ==
    LET pr == proc[1]
        t == pr.tool
    IN
    /\ t.name = "cambiar_estado_servicio" /\ t.pc = "returned" /\ t.answer = "ok"
    /\ t.args.nuevo_estado = Str("cancelado")
    /\ t.pre.data.estado = Str("activo")
    /\ t.invoked = <<"cancelarServicio">>
    /\ pr.log = <<Call("PATCH", "cliente", "write", "network", "ok")>>

\* C39: no stale read after an acknowledged write. Once a write method called
\* by the handler has returned success, a later obtenerCliente of the same
\* service on the same ClienteService that returns a record from the cache
\* returns one that was stored after that write method was called, never one
\* cached before the write.
C39_NoStaleReadAfterWrite ==
    LET pr == proc[1]
        t == pr.tool
    IN
    (/\ t.name = "cambiar_estado_servicio"
     /\ t.acked.is
     /\ pr.op = "obtenerCliente" /\ pr.pc = "done"
     /\ pr.result.success /\ pr.result.data # NullRec
     /\ pr.log[1].via = "cache")
    => cm.stats.sets > t.acked.sets

====
